---------------------------- MODULE Spec2Model ----------------------------
(***************************************************************************)
(* Model of the kokoro-tts command line tool (src/backend/kokoro-tts.py):  *)
(* the sentence chunker, the chapter extractors, the too-long retry of the *)
(* synthesis driver, the resumable split-output run and the chunk merger.  *)
(*                                                                         *)
(* Text is a sequence of one-character strings.  Each subsystem has its    *)
(* own specification over its own variables; the variables of the other    *)
(* subsystems stay at their idle values.                                   *)
(***************************************************************************)
EXTENDS Integers, Sequences, FiniteSets, TLC

VARIABLES
    \* ---- chunk_text ----
    text,           \* the input text
    chunk_size,     \* initial_chunk_size
    ck_pc,          \* "idle" | "start" | "loop" | "done"
    sentences,      \* sentences not yet visited by the for loop
    sent_no,        \* number of sentences visited so far
    chunks,         \* the result list
    chunk_src,      \* for each chunk, the sentence numbers its text comes from
    current_chunk,  \* the accumulation buffer (a list of sentences)
    current_src,    \* sentence numbers held in the buffer
    current_size,   \* sum of the buffered sentences' sizes
    \* ---- process_chunk_sequential ----
    rt_pc,          \* "idle" | "run" | "done"
    backend_limit,  \* the backend rejects as too long every text longer than this
    bad_texts,      \* the texts on which the backend fails with another error
    orig_chunk,     \* the chunk of the outermost call
    stack,          \* the active calls of process_chunk_sequential, outermost first
    calls,          \* the texts passed to kokoro.create, in call order
    result,         \* what the outermost call returned
    \* ---- convert_text_to_audio, one output directory, several invocations ----
    doc_format,     \* "epub" | "pdf" | "txt": the input file's kind
    n_chunks,       \* per extracted chapter, len(chunk_text(chapter content))
    split_output,   \* TRUE: --split-output mode; FALSE: one file built in memory
    run,            \* number of the current invocation
    pc,             \* where the main thread is
    chapter_num,    \* loop variable of the chapter loop
    chunk_num,      \* loop variable of the chunk loop
    processed_chunks,
    stop_audio,     \* the global flag set by handle_ctrl_c
    stop_spinner,   \* the global flag read by spinning_wheel
    spinner_alive,  \* the spinner thread is running
    exit_code,      \* -1 while the process runs
    fs_dir,         \* per chapter directory: does it exist, does info.txt exist
    fs_chunk,       \* per chunk file: "absent" | "empty" | "full"
    writer,         \* per chunk file: the invocation whose sf.write produced it
    fs_at_start,    \* fs_chunk when the current invocation started
    writer_at_start,
    synthesized,    \* <<chapter, chunk>> the current invocation called the driver for
    treated_done,   \* <<chapter, chunk>> the current invocation skipped as done
    failed,         \* <<chapter, chunk>> whose driver call failed in the current invocation
    skipped,        \* the chapters the current invocation skipped as completed
    mem_samples,    \* in-memory mode: <<chapter, chunk>> in all_samples
    out_file,       \* in-memory mode: the output file, "absent" | "full"
    \* ---- merge_chunks_to_chapters ----
    mg_pc,          \* "idle" | "start" | "loop" | "done"
    mg_dirs,        \* the chapter directories under split_output_dir, in sorted order
    mg_next,        \* position of the for loop in chapter_dirs
    used_titles,    \* the set used_titles
    mg_writes,      \* the merged files written so far, in order
    mg_run,         \* number of the current merge invocation
    \* ---- extract_chapters_from_epub, PdfParser ----
    ex_pc,          \* "idle" | "start" | "done"
    ex_format,      \* "epub" | "pdf"
    epub_toc,       \* book.toc: links and (title, items) sections
    epub_docs,      \* the document items, sorted by file name
    pdf_toc,        \* doc.get_toc(): entries (level, title, page)
    pdf_pages,      \* the text of each page
    md_text,        \* what pymupdf4llm.to_markdown returns
    min_chapter_length,
    ex_chapters,    \* the chapter list returned
    \* ---- validate_voice ----
    vv_pc,          \* "idle" | "start" | "done" | "exit"
    voice,          \* the selector given with --voice
    sel_pairs,      \* the (voice, weight) pairs the selector was written from
    vv_result,      \* what validate_voice returned
    vv_exit_code    \* -1 while the process runs

chunkVars == <<text, chunk_size, ck_pc, sentences, sent_no, chunks, chunk_src,
               current_chunk, current_src, current_size>>

retryVars == <<rt_pc, backend_limit, bad_texts, orig_chunk, stack, calls, result>>

runVars == <<doc_format, n_chunks, split_output, run, pc, chapter_num, chunk_num,
             processed_chunks, stop_audio, stop_spinner, spinner_alive, exit_code,
             fs_dir, fs_chunk, writer, fs_at_start, writer_at_start, synthesized,
             treated_done, failed, skipped, mem_samples, out_file>>

mergeVars == <<mg_pc, mg_dirs, mg_next, used_titles, mg_writes, mg_run>>

extractVars == <<ex_pc, ex_format, epub_toc, epub_docs, pdf_toc, pdf_pages, md_text,
                 min_chapter_length, ex_chapters>>

voiceVars == <<vv_pc, voice, sel_pairs, vv_result, vv_exit_code>>

vars == <<chunkVars, retryVars, runVars, mergeVars, extractVars, voiceVars>>

\* What the actions of one subsystem leave alone
notChunk == <<retryVars, runVars, mergeVars, extractVars, voiceVars>>
notRetry == <<chunkVars, runVars, mergeVars, extractVars, voiceVars>>
notRun == <<chunkVars, retryVars, mergeVars, extractVars, voiceVars>>
notMerge == <<chunkVars, retryVars, runVars, extractVars, voiceVars>>
notExtract == <<chunkVars, retryVars, runVars, mergeVars, voiceVars>>
notVoice == <<chunkVars, retryVars, runVars, mergeVars, extractVars>>

-----------------------------------------------------------------------------
(* Bounds of the model *)

MaxTextLen == 5
MaxChunkSize == 4
MaxChunkLen == 10
MaxLimit == 1
NumRates == 2
RecursionLimit == 6
MaxChapters == 2
MaxChunks == 2
MaxRuns == 3
MaxMergeIdx == 3
MaxMergeDirs == 2
MaxMergeRuns == 2
PadWidth == 3
MaxTocItems == 2
MaxSectionItems == 2
MaxEpubDocs == 2
MaxPdfEntries == 3
MaxPages == 3
MaxMdLen == 4
MaxVoices == 3

-----------------------------------------------------------------------------
(* Text helpers: Python's str methods on sequences of characters *)

SP == " "
NL == "\n"
DOT == "."

SetMin(S) == CHOOSE x \in S : \A y \in S : x <= y
SetMax(S) == CHOOSE x \in S : \A y \in S : x >= y

\* All strings over alphabet A of length at most n
StringsUpTo(A, n) == UNION {[1..k -> A] : k \in 0..n}

IsSpace(c) == c \in {SP, NL}

\* text.replace('\n', ' ')
ReplaceNewlines(s) == [i \in 1..Len(s) |-> IF s[i] = NL THEN SP ELSE s[i]]

\* s.split(sep) for a one-character separator: empty fields are kept
RECURSIVE SplitOn(_, _)
SplitOn(s, sep) ==
    LET at == {i \in 1..Len(s) : s[i] = sep}
    IN  IF at = {} THEN <<s>>
        ELSE LET k == SetMin(at)
             IN  <<SubSeq(s, 1, k - 1)>> \o SplitOn(SubSeq(s, k + 1, Len(s)), sep)

\* s.strip()
Strip(s) ==
    LET ns == {i \in 1..Len(s) : ~IsSpace(s[i])}
    IN  IF ns = {} THEN <<>> ELSE SubSeq(s, SetMin(ns), SetMax(ns))

\* s.split(): split on runs of whitespace, no empty fields
RECURSIVE SplitWords(_)
SplitWords(s) ==
    LET ns == {i \in 1..Len(s) : ~IsSpace(s[i])}
    IN  IF ns = {} THEN <<>>
        ELSE LET b  == SetMin(ns)
                 ws == {i \in b..Len(s) : IsSpace(s[i])}
                 e  == IF ws = {} THEN Len(s) + 1 ELSE SetMin(ws)
             IN  <<SubSeq(s, b, e - 1)>> \o SplitWords(SubSeq(s, e, Len(s)))

\* ' '.join(parts)
RECURSIVE JoinSpace(_)
JoinSpace(parts) ==
    IF parts = <<>> THEN <<>>
    ELSE IF Len(parts) = 1 THEN parts[1]
    ELSE parts[1] \o <<SP>> \o JoinSpace(Tail(parts))

HasSpace(s) == \E i \in 1..Len(s) : IsSpace(s[i])

\* Concatenation of a list of lists
RECURSIVE Flatten(_)
Flatten(ss) == IF ss = <<>> THEN <<>> ELSE Head(ss) \o Flatten(Tail(ss))

-----------------------------------------------------------------------------
(* chunk_text *)

\* The joining space is not counted
WordSizeNoSpace(word) == Len(word)

\* word_size = len(word) + 1
WordSize(word) == Len(word) + 1

\* The greedy word packing loop: returns the list of pieces, each a list of
\* words.  A piece is closed when the next word would push its size over
\* the limit; an empty piece is never emitted.
RECURSIVE PackLoop(_, _, _, _, _)
PackLoop(words, limit, current_piece, current_piece_size, pieces) ==
    IF words = <<>>
    THEN IF current_piece # <<>> THEN Append(pieces, current_piece) ELSE pieces
    ELSE LET word == Head(words)
             word_size == WordSize(word)
         IN  IF current_piece_size + word_size > limit
             THEN PackLoop(Tail(words), limit, <<word>>, word_size,
                           IF current_piece # <<>>
                           THEN Append(pieces, current_piece) ELSE pieces)
             ELSE PackLoop(Tail(words), limit, Append(current_piece, word),
                           current_piece_size + word_size, pieces)

PackWords(words, limit) == PackLoop(words, limit, <<>>, 0, <<>>)

\* chunks.append(' '.join(current_piece).strip() + '.')
PieceChunk(piece) == Strip(JoinSpace(piece)) \o <<DOT>>

\* The chunks a sentence longer than chunk_size is split into
LongSentenceChunks(sentence, size) ==
    LET pieces == PackWords(SplitWords(sentence), size)
    IN  [i \in 1..Len(pieces) |-> PieceChunk(pieces[i])]

\* sentence = sentence.strip() + '.'
Sentence(raw) == Strip(raw) \o <<DOT>>

\* sentences = text.replace('\n', ' ').split('.')
ChunkStart ==
    /\ ck_pc = "start"
    /\ sentences' = SplitOn(ReplaceNewlines(text), DOT)
    /\ ck_pc' = "loop"
    /\ UNCHANGED <<text, chunk_size, sent_no, chunks, chunk_src,
                   current_chunk, current_src, current_size>>
    /\ UNCHANGED notChunk

\* if not sentence.strip(): continue
SkipEmptySentence ==
    /\ ck_pc = "loop"
    /\ sentences # <<>>
    /\ Strip(Head(sentences)) = <<>>
    /\ sentences' = Tail(sentences)
    /\ UNCHANGED <<text, chunk_size, ck_pc, sent_no, chunks, chunk_src,
                   current_chunk, current_src, current_size>>
    /\ UNCHANGED notChunk

\* if sentence_size > chunk_size: the pieces go straight to the result list
SplitLongSentence ==
    /\ ck_pc = "loop"
    /\ sentences # <<>>
    /\ Strip(Head(sentences)) # <<>>
    /\ LET sentence == Sentence(Head(sentences))
           new == LongSentenceChunks(sentence, chunk_size)
       IN  /\ Len(sentence) > chunk_size
           /\ chunks' = chunks \o new
           /\ chunk_src' = chunk_src \o [i \in 1..Len(new) |-> {sent_no + 1}]
    /\ sent_no' = sent_no + 1
    /\ sentences' = Tail(sentences)
    /\ UNCHANGED <<text, chunk_size, ck_pc, current_chunk, current_src, current_size>>
    /\ UNCHANGED notChunk

\* A sentence that fits: flush the buffer first when it would grow past
\* chunk_size and is not empty, then add the sentence to the buffer
AccumulateSentence ==
    /\ ck_pc = "loop"
    /\ sentences # <<>>
    /\ Strip(Head(sentences)) # <<>>
    /\ LET sentence == Sentence(Head(sentences))
           sentence_size == Len(sentence)
           flush == current_size + sentence_size > chunk_size /\ current_chunk # <<>>
       IN  /\ sentence_size <= chunk_size
           /\ chunks' = IF flush THEN Append(chunks, JoinSpace(current_chunk)) ELSE chunks
           /\ chunk_src' = IF flush THEN Append(chunk_src, current_src) ELSE chunk_src
           /\ current_chunk' = IF flush THEN <<sentence>> ELSE Append(current_chunk, sentence)
           /\ current_src' = IF flush THEN {sent_no + 1} ELSE current_src \cup {sent_no + 1}
           /\ current_size' = IF flush THEN sentence_size ELSE current_size + sentence_size
    /\ sent_no' = sent_no + 1
    /\ sentences' = Tail(sentences)
    /\ UNCHANGED <<text, chunk_size, ck_pc>>
    /\ UNCHANGED notChunk

\* if current_chunk: chunks.append(' '.join(current_chunk)); return chunks
ChunkFinish ==
    /\ ck_pc = "loop"
    /\ sentences = <<>>
    /\ chunks' = IF current_chunk # <<>> THEN Append(chunks, JoinSpace(current_chunk)) ELSE chunks
    /\ chunk_src' = IF current_chunk # <<>> THEN Append(chunk_src, current_src) ELSE chunk_src
    /\ ck_pc' = "done"
    /\ UNCHANGED <<text, chunk_size, sentences, sent_no, current_chunk, current_src, current_size>>
    /\ UNCHANGED notChunk

-----------------------------------------------------------------------------
(* process_chunk_sequential *)

NoneResult == [kind |-> "none", samples |-> <<>>, sr |-> 0]
OkResult(samples, sr) == [kind |-> "ok", samples |-> samples, sr |-> sr]
RaisedResult == [kind |-> "raised", samples |-> <<>>, sr |-> 0]

\* kokoro.create(chunk, ...): the backend fails with some other error on
\* the texts of bad_texts, rejects a text longer than its limit with the
\* "index 510 is out of bounds" error and succeeds otherwise
Backend(chunk) ==
    IF chunk \in bad_texts THEN "error"
    ELSE IF Len(chunk) > backend_limit THEN "toolong" ELSE "ok"

\* Every error is taken for the too-long error
IsTooLongErrorAny(outcome) == outcome # "ok"

\* if "index 510 is out of bounds" in error_msg
IsTooLongError(outcome) == outcome = "toolong"

\* The samples of one successful backend call: one block, named by its text
Samples(chunk) == <<chunk>>

\* new_size = int(current_size * 0.6)
NewSize(chunk) == (Len(chunk) * 6) \div 10

\* pieces.append(' '.join(current_piece).strip())
PieceText(piece) == Strip(JoinSpace(piece))

\* The pieces a too-long chunk is re-split into
SplitPieces(chunk) ==
    LET pieces == PackWords(SplitWords(chunk), NewSize(chunk))
    IN  [i \in 1..Len(pieces) |-> PieceText(pieces[i])]

CallFrame(chunk) ==
    [phase |-> "call", chunk |-> chunk, pieces |-> <<>>, i |-> 0,
     all_samples |-> <<>>, last_sample_rate |-> 0, got |-> <<>>]

Top == stack[Len(stack)]

\* The rate of the first piece taken is kept
ReturnFirstRate(v) ==
    IF Len(stack) = 1
    THEN /\ stack' = <<>>
         /\ result' = v
         /\ rt_pc' = "done"
    ELSE LET d == Len(stack) - 1
             parent == stack[d]
             taken == IF v.kind = "ok"
                      THEN [parent EXCEPT !.all_samples = @ \o v.samples,
                                          !.last_sample_rate =
                                              IF @ = 0 THEN v.sr ELSE @,
                                          !.i = @ + 1,
                                          !.got = Append(@, v)]
                      ELSE [parent EXCEPT !.i = @ + 1, !.got = Append(@, v)]
         IN  /\ stack' = [SubSeq(stack, 1, d) EXCEPT ![d] = taken]
             /\ UNCHANGED <<result, rt_pc>>

\* The innermost call returns v: the outermost call's value is the result;
\* otherwise the caller's loop takes it (if samples is not None: extend the
\* samples and remember the rate) and moves to the next piece.  got is the
\* history of what the calls for the pieces returned.
Return(v) ==
    IF Len(stack) = 1
    THEN /\ stack' = <<>>
         /\ result' = v
         /\ rt_pc' = "done"
    ELSE LET d == Len(stack) - 1
             parent == stack[d]
             taken == IF v.kind = "ok"
                      THEN [parent EXCEPT !.all_samples = @ \o v.samples,
                                          !.last_sample_rate = v.sr,
                                          !.i = @ + 1,
                                          !.got = Append(@, v)]
                      ELSE [parent EXCEPT !.i = @ + 1, !.got = Append(@, v)]
         IN  /\ stack' = [SubSeq(stack, 1, d) EXCEPT ![d] = taken]
             /\ UNCHANGED <<result, rt_pc>>

\* samples, sample_rate = kokoro.create(...); return samples, sample_rate
CreateSucceeds ==
    /\ rt_pc = "run"
    /\ Top.phase = "call"
    /\ Backend(Top.chunk) = "ok"
    /\ calls' = Append(calls, Top.chunk)
    /\ \E sr \in 1..NumRates : Return(OkResult(Samples(Top.chunk), sr))
    /\ UNCHANGED <<backend_limit, bad_texts, orig_chunk>>
    /\ UNCHANGED notRetry

\* except: "index 510 is out of bounds": split the chunk into word pieces
CreateTooLong ==
    /\ rt_pc = "run"
    /\ Top.phase = "call"
    /\ Backend(Top.chunk) # "ok"
    /\ IsTooLongError(Backend(Top.chunk))
    /\ calls' = Append(calls, Top.chunk)
    /\ stack' = [stack EXCEPT ![Len(stack)] =
                    [@ EXCEPT !.phase = "pieces",
                              !.pieces = SplitPieces(Top.chunk),
                              !.i = 1]]
    /\ UNCHANGED <<rt_pc, backend_limit, bad_texts, orig_chunk, result>>
    /\ UNCHANGED notRetry

\* except: any other error is printed; return None, None
CreateFails ==
    /\ rt_pc = "run"
    /\ Top.phase = "call"
    /\ Backend(Top.chunk) # "ok"
    /\ ~IsTooLongError(Backend(Top.chunk))
    /\ calls' = Append(calls, Top.chunk)
    /\ Return(NoneResult)
    /\ UNCHANGED <<backend_limit, bad_texts, orig_chunk>>
    /\ UNCHANGED notRetry

\* for piece in pieces: process_chunk_sequential(piece, ..., retry_count + 1)
RecursePiece ==
    /\ rt_pc = "run"
    /\ Top.phase = "pieces"
    /\ Top.i <= Len(Top.pieces)
    /\ Len(stack) < RecursionLimit
    /\ stack' = Append(stack, CallFrame(Top.pieces[Top.i]))
    /\ UNCHANGED <<rt_pc, backend_limit, bad_texts, orig_chunk, calls, result>>
    /\ UNCHANGED notRetry

\* The interpreter's recursion limit is reached and the RecursionError is
\* raised inside the callee's try block: the callee's handler does not find
\* the too-long text in the message and returns (None, None)
RecursionErrorCaught ==
    /\ rt_pc = "run"
    /\ Top.phase = "pieces"
    /\ Top.i <= Len(Top.pieces)
    /\ Len(stack) >= RecursionLimit
    /\ stack' = [stack EXCEPT ![Len(stack)] =
                    [@ EXCEPT !.i = @ + 1, !.got = Append(@, NoneResult)]]
    /\ UNCHANGED <<rt_pc, backend_limit, bad_texts, orig_chunk, calls, result>>
    /\ UNCHANGED notRetry

\* The interpreter's recursion limit is reached and the RecursionError is
\* raised by the recursive call itself, inside the except handlers of all
\* active calls: it leaves the outermost call as an exception
RecursionErrorRaised ==
    /\ rt_pc = "run"
    /\ Top.phase = "pieces"
    /\ Top.i <= Len(Top.pieces)
    /\ Len(stack) >= RecursionLimit
    /\ stack' = <<>>
    /\ result' = RaisedResult
    /\ rt_pc' = "done"
    /\ UNCHANGED <<backend_limit, bad_texts, orig_chunk, calls>>
    /\ UNCHANGED notRetry

\* After the loop: if all_samples: return all_samples, last_sample_rate;
\* otherwise fall through to return None, None
FinishPieces ==
    /\ rt_pc = "run"
    /\ Top.phase = "pieces"
    /\ Top.i > Len(Top.pieces)
    /\ Return(IF Top.all_samples # <<>>
              THEN OkResult(Top.all_samples, Top.last_sample_rate)
              ELSE NoneResult)
    /\ UNCHANGED <<backend_limit, bad_texts, orig_chunk, calls>>
    /\ UNCHANGED notRetry

-----------------------------------------------------------------------------
(* convert_text_to_audio *)

Chapters == 1..MaxChapters
ChunkIds == 1..MaxChunks

\* A slip in the file name's index: the file of the chunk before is tested
ChunkFileExistsOffByOne(ch, i) == i > 1 /\ fs_chunk[ch][i - 1] # "absent"

\* os.path.exists(chunk_file)
ChunkFileExists(ch, i) == fs_chunk[ch][i] # "absent"

\* len([f for f in os.listdir(chapter_dir)
\*      if f.startswith("chunk_") and f.endswith(f".{format}")])
ExistingChunks(ch) == Cardinality({i \in ChunkIds : fs_chunk[ch][i] # "absent"})

\* No chapter is taken for completed
ChapterCompletedNever(ch) == FALSE

\* The chapter test of the resume: the directory and info.txt exist and
\* the number of chunk files equals the number of chunks
ChapterCompleted(ch) ==
    /\ fs_dir[ch].exists
    /\ fs_dir[ch].info
    /\ ExistingChunks(ch) = n_chunks[ch]

\* What every step of the main thread leaves alone
runInputs == <<doc_format, n_chunks, split_output, run, fs_at_start, writer_at_start>>

\* The input is read and the chapters are extracted.  An EPUB without
\* chapters ends the process with sys.exit(1); a PDF and a text file go on
\* to the chapter loop with whatever list they got.
ReadInput ==
    /\ pc = "start"
    /\ IF doc_format = "epub" /\ Len(n_chunks) = 0
       THEN /\ pc' = "exit"
            /\ exit_code' = 1
            /\ UNCHANGED chapter_num
       ELSE /\ pc' = "chapter"
            /\ chapter_num' = 1
            /\ UNCHANGED exit_code
    /\ UNCHANGED <<chunk_num, processed_chunks, stop_audio, stop_spinner,
                   spinner_alive, fs_dir, fs_chunk, writer, synthesized,
                   treated_done, failed, skipped, mem_samples, out_file>>
    /\ UNCHANGED runInputs
    /\ UNCHANGED notRun

\* Split mode: the chapter is already fully processed: continue
SkipChapter ==
    /\ pc = "chapter"
    /\ split_output
    /\ chapter_num <= Len(n_chunks)
    /\ ChapterCompleted(chapter_num)
    /\ treated_done' = treated_done \cup
            {<<chapter_num, i>> : i \in 1..n_chunks[chapter_num]}
    /\ skipped' = skipped \cup {chapter_num}
    /\ chapter_num' = chapter_num + 1
    /\ UNCHANGED failed
    /\ UNCHANGED <<pc, chunk_num, processed_chunks, stop_audio, stop_spinner,
                   spinner_alive, exit_code, fs_dir, fs_chunk, writer,
                   synthesized, mem_samples, out_file>>
    /\ UNCHANGED runInputs
    /\ UNCHANGED notRun

\* A chunk loop that starts after the number of files found, not at 1
BeginChapterFromCount ==
    /\ pc = "chapter"
    /\ chapter_num <= Len(n_chunks)
    /\ split_output => ~ChapterCompleted(chapter_num)
    /\ fs_dir' = IF split_output
                 THEN [fs_dir EXCEPT ![chapter_num] = [exists |-> TRUE, info |-> TRUE]]
                 ELSE fs_dir
    /\ processed_chunks' = IF split_output THEN ExistingChunks(chapter_num) ELSE 0
    /\ chunk_num' = IF split_output THEN ExistingChunks(chapter_num) + 1 ELSE 1
    /\ pc' = "chunk"
    /\ UNCHANGED <<chapter_num, stop_audio, stop_spinner, spinner_alive, exit_code,
                   fs_chunk, writer, synthesized, treated_done, failed, skipped, mem_samples, out_file>>
    /\ UNCHANGED runInputs
    /\ UNCHANGED notRun

\* Split mode: os.makedirs(chapter_dir), info.txt written if absent,
\* processed_chunks counted from the directory, then the chunk loop.
\* In-memory mode: processed_chunks = 0, then the chunk loop.
BeginChapter ==
    /\ pc = "chapter"
    /\ chapter_num <= Len(n_chunks)
    /\ split_output => ~ChapterCompleted(chapter_num)
    /\ fs_dir' = IF split_output
                 THEN [fs_dir EXCEPT ![chapter_num] = [exists |-> TRUE, info |-> TRUE]]
                 ELSE fs_dir
    /\ processed_chunks' = IF split_output THEN ExistingChunks(chapter_num) ELSE 0
    /\ chunk_num' = 1
    /\ pc' = "chunk"
    /\ UNCHANGED <<chapter_num, stop_audio, stop_spinner, spinner_alive, exit_code,
                   fs_chunk, writer, synthesized, treated_done, failed, skipped, mem_samples, out_file>>
    /\ UNCHANGED runInputs
    /\ UNCHANGED notRun

\* Split mode: if os.path.exists(chunk_file): continue
SkipChunk ==
    /\ pc = "chunk"
    /\ split_output
    /\ ~stop_audio
    /\ chunk_num <= n_chunks[chapter_num]
    /\ ChunkFileExists(chapter_num, chunk_num)
    /\ treated_done' = treated_done \cup {<<chapter_num, chunk_num>>}
    /\ chunk_num' = chunk_num + 1
    /\ UNCHANGED <<failed, skipped>>
    /\ UNCHANGED <<pc, chapter_num, processed_chunks, stop_audio, stop_spinner,
                   spinner_alive, exit_code, fs_dir, fs_chunk, writer,
                   synthesized, mem_samples, out_file>>
    /\ UNCHANGED runInputs
    /\ UNCHANGED notRun

\* stop_spinner = False; the spinner thread is started; the driver is called
StartChunk ==
    /\ pc = "chunk"
    /\ ~stop_audio
    /\ chunk_num <= n_chunks[chapter_num]
    /\ split_output => ~ChunkFileExists(chapter_num, chunk_num)
    /\ stop_spinner' = FALSE
    /\ spinner_alive' = TRUE
    /\ synthesized' = synthesized \cup {<<chapter_num, chunk_num>>}
    /\ pc' = "synth"
    /\ UNCHANGED <<chapter_num, chunk_num, processed_chunks, stop_audio, exit_code,
                   fs_dir, fs_chunk, writer, treated_done, failed, skipped, mem_samples, out_file>>
    /\ UNCHANGED runInputs
    /\ UNCHANGED notRun

\* process_chunk_sequential returned samples.  Split mode: sf.write opens
\* (creates) the chunk file.  In-memory mode: all_samples.extend(samples).
SynthOk ==
    /\ pc = "synth"
    /\ IF split_output
       THEN /\ fs_chunk' = [fs_chunk EXCEPT ![chapter_num][chunk_num] = "empty"]
            /\ pc' = "writing"
            /\ UNCHANGED <<mem_samples, processed_chunks>>
       ELSE /\ mem_samples' = mem_samples \cup {<<chapter_num, chunk_num>>}
            /\ processed_chunks' = processed_chunks + 1
            /\ pc' = "after"
            /\ UNCHANGED fs_chunk
    /\ UNCHANGED <<chapter_num, chunk_num, stop_audio, stop_spinner, spinner_alive,
                   exit_code, fs_dir, writer, synthesized, treated_done, failed, skipped, out_file>>
    /\ UNCHANGED runInputs
    /\ UNCHANGED notRun

\* A failure that leaves the chunk loop: the rest of the chapter is not visited
SynthFailsAborts ==
    /\ pc = "synth"
    /\ failed' = failed \cup {<<chapter_num, chunk_num>>}
    /\ chunk_num' = n_chunks[chapter_num]
    /\ pc' = "after"
    /\ UNCHANGED <<chapter_num, processed_chunks, stop_audio, stop_spinner,
                   spinner_alive, exit_code, fs_dir, fs_chunk, writer, synthesized,
                   treated_done, skipped, mem_samples, out_file>>
    /\ UNCHANGED runInputs
    /\ UNCHANGED notRun

\* process_chunk_sequential returned (None, None), or raised and the
\* except clause printed the error: nothing is written
SynthFails ==
    /\ pc = "synth"
    /\ failed' = failed \cup {<<chapter_num, chunk_num>>}
    /\ pc' = "after"
    /\ UNCHANGED <<chapter_num, chunk_num, processed_chunks, stop_audio, stop_spinner,
                   spinner_alive, exit_code, fs_dir, fs_chunk, writer, synthesized,
                   treated_done, skipped, mem_samples, out_file>>
    /\ UNCHANGED runInputs
    /\ UNCHANGED notRun

\* sf.write writes the samples and closes the file; processed_chunks += 1
WriteDone ==
    /\ pc = "writing"
    /\ fs_chunk' = [fs_chunk EXCEPT ![chapter_num][chunk_num] = "full"]
    /\ writer' = [writer EXCEPT ![chapter_num][chunk_num] = run]
    /\ processed_chunks' = processed_chunks + 1
    /\ pc' = "after"
    /\ UNCHANGED <<chapter_num, chunk_num, stop_audio, stop_spinner, spinner_alive,
                   exit_code, fs_dir, synthesized, treated_done, failed, skipped, mem_samples, out_file>>
    /\ UNCHANGED runInputs
    /\ UNCHANGED notRun

\* sf.write raises after creating the file (an I/O error): the except
\* clause prints the error and the truncated file stays
WriteFails ==
    /\ pc = "writing"
    /\ pc' = "after"
    /\ UNCHANGED <<chapter_num, chunk_num, processed_chunks, stop_audio, stop_spinner,
                   spinner_alive, exit_code, fs_dir, fs_chunk, writer, synthesized,
                   treated_done, failed, skipped, mem_samples, out_file>>
    /\ UNCHANGED runInputs
    /\ UNCHANGED notRun

\* stop_spinner = True
StopSpinner ==
    /\ pc = "after"
    /\ stop_spinner' = TRUE
    /\ pc' = "join"
    /\ UNCHANGED <<chapter_num, chunk_num, processed_chunks, stop_audio, spinner_alive,
                   exit_code, fs_dir, fs_chunk, writer, synthesized, treated_done, failed, skipped,
                   mem_samples, out_file>>
    /\ UNCHANGED runInputs
    /\ UNCHANGED notRun

\* spinner_thread.join() returns once the thread has ended; next chunk
JoinSpinner ==
    /\ pc = "join"
    /\ ~spinner_alive
    /\ chunk_num' = chunk_num + 1
    /\ pc' = "chunk"
    /\ UNCHANGED <<chapter_num, processed_chunks, stop_audio, stop_spinner,
                   spinner_alive, exit_code, fs_dir, fs_chunk, writer, synthesized,
                   treated_done, failed, skipped, mem_samples, out_file>>
    /\ UNCHANGED runInputs
    /\ UNCHANGED notRun

\* The chunk loop is over (all chunks visited, or stop_audio): the
\* completion line is printed and the chapter loop goes on
EndChapter ==
    /\ pc = "chunk"
    /\ chunk_num > n_chunks[chapter_num] \/ stop_audio
    /\ chapter_num' = chapter_num + 1
    /\ pc' = "chapter"
    /\ UNCHANGED <<chunk_num, processed_chunks, stop_audio, stop_spinner,
                   spinner_alive, exit_code, fs_dir, fs_chunk, writer, synthesized,
                   treated_done, failed, skipped, mem_samples, out_file>>
    /\ UNCHANGED runInputs
    /\ UNCHANGED notRun

\* The chapter loop is over.  In-memory mode: if all_samples: the output
\* file is written.  The function returns and the process ends with 0.
Finish ==
    /\ pc = "chapter"
    /\ chapter_num > Len(n_chunks)
    /\ out_file' = IF ~split_output /\ mem_samples # {} THEN "full" ELSE out_file
    /\ exit_code' = 0
    /\ pc' = "exit"
    /\ UNCHANGED <<chapter_num, chunk_num, processed_chunks, stop_audio, stop_spinner,
                   spinner_alive, fs_dir, fs_chunk, writer, synthesized,
                   treated_done, failed, skipped, mem_samples>>
    /\ UNCHANGED runInputs
    /\ UNCHANGED notRun

\* spinning_wheel: the loop "while not stop_spinner" ends
SpinnerExit ==
    /\ spinner_alive
    /\ stop_spinner
    /\ spinner_alive' = FALSE
    /\ UNCHANGED <<pc, chapter_num, chunk_num, processed_chunks, stop_audio,
                   stop_spinner, exit_code, fs_dir, fs_chunk, writer, synthesized,
                   treated_done, failed, skipped, mem_samples, out_file>>
    /\ UNCHANGED runInputs
    /\ UNCHANGED notRun

\* A handler that only sets the flags and returns: the main thread goes on
HandleCtrlCNoExit ==
    /\ pc # "exit"
    /\ ~stop_audio
    /\ stop_spinner' = TRUE
    /\ stop_audio' = TRUE
    /\ UNCHANGED <<pc, exit_code, chapter_num, chunk_num, processed_chunks, spinner_alive,
                   fs_dir, fs_chunk, writer, synthesized, treated_done, failed, skipped,
                   mem_samples, out_file>>
    /\ UNCHANGED runInputs
    /\ UNCHANGED notRun

\* handle_ctrl_c: both flags are set and sys.exit(0) raises SystemExit in
\* the main thread, which no "except Exception" catches: the process ends
\* with 0 wherever the main thread was.  A chunk file that sf.write had
\* opened and not yet filled stays as it is.
HandleCtrlC ==
    /\ pc # "exit"
    /\ stop_spinner' = TRUE
    /\ stop_audio' = TRUE
    /\ exit_code' = 0
    /\ pc' = "exit"
    /\ UNCHANGED <<chapter_num, chunk_num, processed_chunks, spinner_alive, fs_dir,
                   fs_chunk, writer, synthesized, treated_done, failed, skipped, mem_samples, out_file>>
    /\ UNCHANGED runInputs
    /\ UNCHANGED notRun

\* --stream: asyncio.run(stream_audio(...)) for the next chapter;
\* stream_audio begins with stop_spinner = False, stop_audio = False
StreamBegin ==
    /\ pc = "chapter"
    /\ chapter_num <= Len(n_chunks)
    /\ stop_spinner' = FALSE
    /\ stop_audio' = FALSE
    /\ chunk_num' = 1
    /\ pc' = "s_chunk"
    /\ UNCHANGED <<chapter_num, processed_chunks, spinner_alive, exit_code, fs_dir,
                   fs_chunk, writer, synthesized, treated_done, failed, skipped,
                   mem_samples, out_file>>
    /\ UNCHANGED runInputs
    /\ UNCHANGED notRun

\* stream_audio: the spinner thread of the next chunk is started and
\* kokoro.create_stream is called
StreamStartChunk ==
    /\ pc = "s_chunk"
    /\ ~stop_audio
    /\ chunk_num <= n_chunks[chapter_num]
    /\ spinner_alive' = TRUE
    /\ synthesized' = synthesized \cup {<<chapter_num, chunk_num>>}
    /\ pc' = "s_play"
    /\ UNCHANGED <<chapter_num, chunk_num, processed_chunks, stop_audio, stop_spinner,
                   exit_code, fs_dir, fs_chunk, writer, treated_done, failed, skipped,
                   mem_samples, out_file>>
    /\ UNCHANGED runInputs
    /\ UNCHANGED notRun

\* stream_audio: the samples of the chunk were streamed and played;
\* stop_spinner = True
StreamPlayed ==
    /\ pc = "s_play"
    /\ stop_spinner' = TRUE
    /\ pc' = "s_join"
    /\ UNCHANGED <<chapter_num, chunk_num, processed_chunks, stop_audio, spinner_alive,
                   exit_code, fs_dir, fs_chunk, writer, synthesized, treated_done, failed,
                   skipped, mem_samples, out_file>>
    /\ UNCHANGED runInputs
    /\ UNCHANGED notRun

\* stream_audio: kokoro.create_stream (or the playback) raises.  No try
\* statement encloses the loop, asyncio.run or the call of stream_audio:
\* the exception ends the main thread, stop_spinner stays as it is
StreamFails ==
    /\ pc = "s_play"
    /\ failed' = failed \cup {<<chapter_num, chunk_num>>}
    /\ pc' = "crashed"
    /\ UNCHANGED <<chapter_num, chunk_num, processed_chunks, stop_audio, stop_spinner,
                   spinner_alive, exit_code, fs_dir, fs_chunk, writer, synthesized,
                   treated_done, skipped, mem_samples, out_file>>
    /\ UNCHANGED runInputs
    /\ UNCHANGED notRun

\* stream_audio: spinner_thread.join() returns; stop_spinner = False; next chunk
StreamJoin ==
    /\ pc = "s_join"
    /\ ~spinner_alive
    /\ stop_spinner' = FALSE
    /\ chunk_num' = chunk_num + 1
    /\ pc' = "s_chunk"
    /\ UNCHANGED <<chapter_num, processed_chunks, stop_audio, spinner_alive, exit_code,
                   fs_dir, fs_chunk, writer, synthesized, treated_done, failed, skipped,
                   mem_samples, out_file>>
    /\ UNCHANGED runInputs
    /\ UNCHANGED notRun

\* stream_audio returns: the loop over the chunks is over
StreamEnd ==
    /\ pc = "s_chunk"
    /\ chunk_num > n_chunks[chapter_num] \/ stop_audio
    /\ chapter_num' = chapter_num + 1
    /\ pc' = "chapter"
    /\ UNCHANGED <<chunk_num, processed_chunks, stop_audio, stop_spinner, spinner_alive,
                   exit_code, fs_dir, fs_chunk, writer, synthesized, treated_done, failed,
                   skipped, mem_samples, out_file>>
    /\ UNCHANGED runInputs
    /\ UNCHANGED notRun

\* The tool is invoked again with the same arguments on the same output
\* directory: a new process, the files stay
NextRun ==
    /\ pc = "exit"
    /\ ~spinner_alive
    /\ run < MaxRuns
    /\ run' = run + 1
    /\ pc' = "start"
    /\ chapter_num' = 0
    /\ chunk_num' = 0
    /\ processed_chunks' = 0
    /\ stop_audio' = FALSE
    /\ stop_spinner' = FALSE
    /\ exit_code' = -1
    /\ fs_at_start' = fs_chunk
    /\ writer_at_start' = writer
    /\ synthesized' = {}
    /\ treated_done' = {}
    /\ failed' = {}
    /\ skipped' = {}
    /\ mem_samples' = {}
    /\ UNCHANGED <<doc_format, n_chunks, split_output, spinner_alive, fs_dir,
                   fs_chunk, writer, out_file>>
    /\ UNCHANGED notRun

-----------------------------------------------------------------------------
(* merge_chunks_to_chapters *)

DigitChars == <<"0", "1", "2", "3", "4", "5", "6", "7", "8", "9">>

\* str(n)
RECURSIVE Digits(_)
Digits(n) == IF n < 10 THEN <<DigitChars[n + 1]>>
             ELSE Digits(n \div 10) \o <<DigitChars[(n % 10) + 1]>>

\* f"{n:03d}": zero-padded to the width, longer numbers keep all digits
RECURSIVE PadZero(_, _)
PadZero(ds, width) == IF Len(ds) >= width THEN ds ELSE PadZero(<<"0">> \o ds, width)

\* The part of the file name chunk_NNN.<format> that differs between the
\* chunk files of one directory: the number and the dot after it
ChunkFileName(i) == PadZero(Digits(i), PadWidth) \o <<DOT>>

\* Character order of the names: "." sorts before the digits
CharOrd(c) == IF c = DOT THEN 0 ELSE CHOOSE d \in 1..10 : DigitChars[d] = c

\* Python's string comparison a < b
RECURSIVE LexLess(_, _)
LexLess(a, b) ==
    IF b = <<>> THEN FALSE
    ELSE IF a = <<>> THEN TRUE
    ELSE IF CharOrd(Head(a)) # CharOrd(Head(b)) THEN CharOrd(Head(a)) < CharOrd(Head(b))
    ELSE LexLess(Tail(a), Tail(b))

\* sorted(...) of the chunk files with the given indices, by file name
RECURSIVE SortedByName(_)
SortedByName(S) ==
    IF S = {} THEN <<>>
    ELSE LET m == CHOOSE x \in S :
                    \A y \in S \ {x} : LexLess(ChunkFileName(x), ChunkFileName(y))
         IN  <<m>> \o SortedByName(S \ {m})

\* The indices of the chunk files present in a chapter directory
PresentChunks(dir) == {i \in DOMAIN dir.files : dir.files[i].state # "absent"}

\* chunk_files = sorted([f for f in os.listdir(chapter_path) if ...])
ChunkFiles(dir) == SortedByName(PresentChunks(dir))

\* The name of the chapter directory at position k: chapter_00k
DirName(k) == <<"c">> \o Digits(k)

\* chapter_title: the directory name, or the title line of info.txt
ChapterTitle(k) == IF mg_dirs[k].info THEN mg_dirs[k].title ELSE DirName(k)

IsAlnum(c) == c \in {"A", "B", "c"} \/ \E d \in 1..10 : DigitChars[d] = c

\* "".join(c for c in chapter_title if c.isalnum() or c in (' ', '-', '_')).strip()
RECURSIVE KeepSafe(_)
KeepSafe(t) ==
    IF t = <<>> THEN <<>>
    ELSE IF IsAlnum(Head(t)) \/ Head(t) \in {SP, "-", "_"}
         THEN <<Head(t)>> \o KeepSafe(Tail(t))
         ELSE KeepSafe(Tail(t))

SafeTitle(t) == Strip(KeepSafe(t))

\* merged_file, without the output directory and the extension
MergedName(k) ==
    LET safe_title == SafeTitle(ChapterTitle(k))
    IN  IF safe_title = <<>> \/ safe_title \in used_titles
        THEN DirName(k) ELSE safe_title

\* The loop over chunk_files: an unreadable file is reported and skipped,
\* so is a file with no data and a file whose rate differs from the rate
\* of the first file taken; the others are appended in list order
RECURSIVE MergeLoop(_, _, _, _)
MergeLoop(dir, files, all_samples, sample_rate) ==
    IF files = <<>> THEN [all_samples |-> all_samples, sample_rate |-> sample_rate]
    ELSE LET f == dir.files[Head(files)]
         IN  IF f.state = "corrupt" \/ f.state = "empty"
             THEN MergeLoop(dir, Tail(files), all_samples, sample_rate)
             ELSE IF sample_rate # 0 /\ f.sr # sample_rate
             THEN MergeLoop(dir, Tail(files), all_samples, sample_rate)
             ELSE MergeLoop(dir, Tail(files), Append(all_samples, Head(files)), f.sr)

\* A merge without the rate test: every file with data is appended
MergeOfAnyRate(dir) ==
    LET r == SelectSeq(ChunkFiles(dir), LAMBDA i : dir.files[i].state = "full")
    IN  [all_samples |-> r,
         sample_rate |-> IF r = <<>> THEN 0 ELSE dir.files[r[Len(r)]].sr]

\* What the loop over chunk_files leaves in all_samples and sample_rate
MergeOf(dir) == MergeLoop(dir, ChunkFiles(dir), <<>>, 0)

\* split_output_dir is searched for chapter directories; without any the
\* function returns
MergeStart ==
    /\ mg_pc = "start"
    /\ mg_pc' = IF Len(mg_dirs) = 0 THEN "done" ELSE "loop"
    /\ mg_next' = 1
    /\ used_titles' = {}
    /\ UNCHANGED <<mg_dirs, mg_writes, mg_run>>
    /\ UNCHANGED notMerge

\* if not chunk_files: continue
MergeNoChunks ==
    /\ mg_pc = "loop"
    /\ mg_next <= Len(mg_dirs)
    /\ ChunkFiles(mg_dirs[mg_next]) = <<>>
    /\ mg_next' = mg_next + 1
    /\ UNCHANGED <<mg_pc, mg_dirs, used_titles, mg_writes, mg_run>>
    /\ UNCHANGED notMerge

\* One chapter directory with chunk files: the output name is chosen, the
\* chunk files are read in list order and, if any samples were taken,
\* sf.write(merged_file, all_samples, sample_rate)
MergeChapter ==
    /\ mg_pc = "loop"
    /\ mg_next <= Len(mg_dirs)
    /\ ChunkFiles(mg_dirs[mg_next]) # <<>>
    /\ LET safe_title == SafeTitle(ChapterTitle(mg_next))
           m == MergeOf(mg_dirs[mg_next])
       IN  /\ used_titles' = IF safe_title = <<>> \/ safe_title \in used_titles
                             THEN used_titles ELSE used_titles \cup {safe_title}
           /\ mg_writes' = IF m.all_samples # <<>>
                           THEN Append(mg_writes,
                                       [dir |-> mg_next, name |-> MergedName(mg_next),
                                        samples |-> m.all_samples, sr |-> m.sample_rate,
                                        run |-> mg_run])
                           ELSE mg_writes
    /\ mg_next' = mg_next + 1
    /\ UNCHANGED <<mg_pc, mg_dirs, mg_run>>
    /\ UNCHANGED notMerge

\* The loop over chapter_dirs is over
MergeDone ==
    /\ mg_pc = "loop"
    /\ mg_next > Len(mg_dirs)
    /\ mg_pc' = "done"
    /\ UNCHANGED <<mg_dirs, mg_next, used_titles, mg_writes, mg_run>>
    /\ UNCHANGED notMerge

\* --merge-chunks is invoked again on the same output directory: the
\* chapter directories and their chunk files are as before
MergeAgain ==
    /\ mg_pc = "done"
    /\ mg_run < MaxMergeRuns
    /\ mg_run' = mg_run + 1
    /\ mg_pc' = "start"
    /\ UNCHANGED <<mg_dirs, mg_next, used_titles, mg_writes>>
    /\ UNCHANGED notMerge

-----------------------------------------------------------------------------
(* extract_chapters_from_epub *)

LowerChar(c) ==
    CASE c = "B" -> "b"
      [] c = "C" -> "c"
      [] c = "O" -> "o"
      [] c = "T" -> "t"
      [] OTHER -> c

\* title.lower()
Lower(t) == [i \in 1..Len(t) |-> LowerChar(t[i])]

FrontMatterTitles ==
    { <<"c", "o", "p", "y">>,
      <<"c", "o", "p", "y", "r", "i", "g", "h", "t">>,
      <<"t", "i", "t", "l", "e", " ", "p", "a", "g", "e">>,
      <<"c", "o", "v", "e", "r">> }

\* item.title.lower() in [...] or item.title.lower().startswith('by')
IsFrontMatter(title) ==
    \/ Lower(title) \in FrontMatterTitles
    \/ (Len(title) >= 2 /\ SubSeq(Lower(title), 1, 2) = <<"b", "y">>)

\* process_toc_items(items): a section is walked by a nested call, whose
\* processed list is added to the caller's; a link that is not front
\* matter and whose text is not empty becomes a chapter with
\* order len(processed) + 1, processed being the list of the current call.
\* The text of a link (what the document lookup and get_chapter_content
\* give, empty when the document or the fragment is not found) is input.
RECURSIVE ProcessTocLoop(_, _, _)
ProcessTocLoop(items, processed, chapters) ==
    IF items = <<>> THEN [processed |-> processed, chapters |-> chapters]
    ELSE LET item == Head(items)
         IN  IF item.kind = "section"
             THEN LET inner == ProcessTocLoop(item.items, 0, chapters)
                  IN  ProcessTocLoop(Tail(items), processed + inner.processed,
                                     inner.chapters)
             ELSE IF IsFrontMatter(item.title)
             THEN ProcessTocLoop(Tail(items), processed, chapters)
             ELSE IF item.content # <<>>
             THEN ProcessTocLoop(Tail(items), processed + 1,
                                 Append(chapters, [title |-> item.title,
                                                   content |-> item.content,
                                                   order |-> processed + 1]))
             ELSE ProcessTocLoop(Tail(items), processed, chapters)

\* process_toc_items(book.toc)
TocChapters(toc) == ProcessTocLoop(toc, 0, <<>>).chapters

\* The chapter headings of one document: each with non-blank following
\* content becomes a chapter with order len(chapters) + 1
RECURSIVE DivLoop(_, _)
DivLoop(divs, chapters) ==
    IF divs = <<>> THEN chapters
    ELSE IF Strip(Head(divs).content) # <<>>
         THEN DivLoop(Tail(divs),
                      Append(chapters, [title |-> Head(divs).title,
                                        content |-> Strip(Head(divs).content),
                                        order |-> Len(chapters) + 1]))
         ELSE DivLoop(Tail(divs), chapters)

\* The fallback over all documents: a document with chapter headings gives
\* one chapter per heading; a document without gives one chapter, unless
\* its text is empty or its title names front matter
RECURSIVE DocLoop(_, _)
DocLoop(docs, chapters) ==
    IF docs = <<>> THEN chapters
    ELSE LET doc == Head(docs)
         IN  IF doc.divs # <<>>
             THEN DocLoop(Tail(docs), DivLoop(doc.divs, chapters))
             ELSE IF Strip(doc.text) # <<>> /\ Lower(doc.title) \notin FrontMatterTitles
             THEN DocLoop(Tail(docs),
                          Append(chapters, [title |-> doc.title,
                                            content |-> Strip(doc.text),
                                            order |-> Len(chapters) + 1]))
             ELSE DocLoop(Tail(docs), chapters)

\* The table of contents gives at least one chapter
ExtractEpubToc ==
    /\ ex_pc = "start"
    /\ ex_format = "epub"
    /\ TocChapters(epub_toc) # <<>>
    /\ ex_chapters' = TocChapters(epub_toc)
    /\ ex_pc' = "done"
    /\ UNCHANGED <<ex_format, epub_toc, epub_docs, pdf_toc, pdf_pages, md_text,
                   min_chapter_length>>
    /\ UNCHANGED notExtract

\* if not chapters: all documents are processed
ExtractEpubFallback ==
    /\ ex_pc = "start"
    /\ ex_format = "epub"
    /\ TocChapters(epub_toc) = <<>>
    /\ ex_chapters' = DocLoop(epub_docs, <<>>)
    /\ ex_pc' = "done"
    /\ UNCHANGED <<ex_format, epub_toc, epub_docs, pdf_toc, pdf_pages, md_text,
                   min_chapter_length>>
    /\ UNCHANGED notExtract

-----------------------------------------------------------------------------
(* PdfParser *)

\* _clean_title: title.strip().replace('​', ' ')
CleanTitle(title) == [i \in 1..Len(Strip(title)) |->
                        IF Strip(title)[i] = "z" THEN SP ELSE Strip(title)[i]]

\* The level 1 entries with a non-empty title, the first one of each page
RECURSIVE MarkerLoop(_, _, _)
MarkerLoop(toc, seen_pages, chapter_markers) ==
    IF toc = <<>> THEN chapter_markers
    ELSE LET e == Head(toc)
             title == CleanTitle(e.title)
         IN  IF e.level = 1 /\ title # <<>> /\ e.page \notin seen_pages
             THEN MarkerLoop(Tail(toc), seen_pages \cup {e.page},
                             Append(chapter_markers, [title |-> title, page |-> e.page]))
             ELSE MarkerLoop(Tail(toc), seen_pages, chapter_markers)

ChapterMarkers(toc) == MarkerLoop(toc, {}, <<>>)

\* '\n'.join(parts)
RECURSIVE JoinLines(_)
JoinLines(parts) ==
    IF parts = <<>> THEN <<>>
    ELSE IF Len(parts) = 1 THEN parts[1]
    ELSE parts[1] \o <<NL>> \o JoinLines(Tail(parts))

\* _extract_chapter_text(doc, start_page, end_page): the pages
\* range(start_page, end_page), counted from 0
ExtractChapterText(pages, start_page, end_page) ==
    JoinLines([k \in 1..(IF end_page > start_page THEN end_page - start_page ELSE 0)
                  |-> pages[start_page + k]])

\* end_page: one page before the next marker's page, page_count for the last
EndPage(markers, i, page_count) ==
    IF i < Len(markers) THEN markers[i + 1].page - 1 ELSE page_count

\* if len(chapter_text.strip()) > self.min_chapter_length
LongEnough(chapter_text, min_len) == Len(Strip(chapter_text)) > min_len

\* The loop over chapter_markers: order is the marker's position
RECURSIVE PdfTocLoop(_, _, _, _, _)
PdfTocLoop(markers, i, pages, min_len, chapters) ==
    IF i > Len(markers) THEN chapters
    ELSE LET chapter_text ==
                 ExtractChapterText(pages, markers[i].page - 1,
                                    EndPage(markers, i, Len(pages)))
         IN  IF LongEnough(chapter_text, min_len)
             THEN PdfTocLoop(markers, i + 1, pages, min_len,
                             Append(chapters, [title |-> markers[i].title,
                                               content |-> chapter_text,
                                               order |-> i]))
             ELSE PdfTocLoop(markers, i + 1, pages, min_len, chapters)

\* What get_chapters_from_toc leaves in self.chapters
PdfTocChapters(toc, pages, min_len) ==
    PdfTocLoop(ChapterMarkers(toc), 1, pages, min_len, <<>>)

\* _clean_markdown: '-' removed, every whitespace run made one space, strip
CleanMarkdown(t) ==
    LET kept == {i \in 1..Len(t) : t[i] # "-"}
        RECURSIVE Pick(_)
        Pick(S) == IF S = {} THEN <<>>
                   ELSE <<t[SetMin(S)]>> \o Pick(S \ {SetMin(S)})
    IN  JoinSpace(SplitWords(Pick(kept)))

\* line.lstrip('#')
RECURSIVE LStripHash(_)
LStripHash(line) ==
    IF line # <<>> /\ Head(line) = "#" THEN LStripHash(Tail(line)) ELSE line

\* The closing of a chapter: kept if it has text lines and is long enough
CloseChapter(current_chapter, current_text, chapter_count, min_len, chapters) ==
    IF current_chapter # <<>> /\ current_text # <<>>
          /\ LongEnough(Flatten(current_text), min_len)
    THEN Append(chapters, [title |-> current_chapter,
                           content |-> Flatten(current_text),
                           order |-> chapter_count])
    ELSE chapters

\* The loop over md_text.split('\n'): a line starting with '#' closes the
\* chapter before it and opens the next; other lines are added to an open
\* chapter.  current_chapter is <<>> for None, else <<count, heading>>.
RECURSIVE MdLoop(_, _, _, _, _, _)
MdLoop(lines, current_chapter, current_text, chapter_count, min_len, chapters) ==
    IF lines = <<>>
    THEN CloseChapter(current_chapter, current_text, chapter_count, min_len, chapters)
    ELSE LET line == Head(lines)
         IN  IF line # <<>> /\ Head(line) = "#"
             THEN MdLoop(Tail(lines),
                         <<chapter_count + 1, Strip(LStripHash(line))>>, <<>>,
                         chapter_count + 1, min_len,
                         CloseChapter(current_chapter, current_text, chapter_count,
                                      min_len, chapters))
             ELSE IF current_chapter # <<>>
             THEN MdLoop(Tail(lines), current_chapter,
                         Append(current_text, line \o <<NL>>),
                         chapter_count, min_len, chapters)
             ELSE MdLoop(Tail(lines), current_chapter, current_text,
                         chapter_count, min_len, chapters)

\* get_chapters_from_markdown
MarkdownChapters(md, min_len) ==
    MdLoop(SplitOn(CleanMarkdown(md), NL), <<>>, <<>>, 0, min_len, <<>>)

\* get_chapters: if self.get_chapters_from_toc(): return self.chapters
ExtractPdfToc ==
    /\ ex_pc = "start"
    /\ ex_format = "pdf"
    /\ PdfTocChapters(pdf_toc, pdf_pages, min_chapter_length) # <<>>
    /\ ex_chapters' = PdfTocChapters(pdf_toc, pdf_pages, min_chapter_length)
    /\ ex_pc' = "done"
    /\ UNCHANGED <<ex_format, epub_toc, epub_docs, pdf_toc, pdf_pages, md_text,
                   min_chapter_length>>
    /\ UNCHANGED notExtract

\* get_chapters: self.chapters = self.get_chapters_from_markdown()
ExtractPdfMarkdown ==
    /\ ex_pc = "start"
    /\ ex_format = "pdf"
    /\ PdfTocChapters(pdf_toc, pdf_pages, min_chapter_length) = <<>>
    /\ ex_chapters' = MarkdownChapters(md_text, min_chapter_length)
    /\ ex_pc' = "done"
    /\ UNCHANGED <<ex_format, epub_toc, epub_docs, pdf_toc, pdf_pages, md_text,
                   min_chapter_length>>
    /\ UNCHANGED notExtract

-----------------------------------------------------------------------------
(* validate_voice *)

COMMA == ","
COLON == ":"

\* kokoro.get_voices()
supported_voices == {<<"a">>, <<"b">>}

\* weights.append(50.0)
DefaultWeight == 50

IsDigitString(t) == t # <<>> /\ \A i \in 1..Len(t) : \E d \in 1..10 : DigitChars[d] = t[i]

\* float(w.strip()) of a string of digits
RECURSIVE DigitsValue(_)
DigitsValue(t) ==
    IF t = <<>> THEN 0
    ELSE 10 * DigitsValue(SubSeq(t, 1, Len(t) - 1)) + (CharOrd(t[Len(t)]) - 1)

\* One element of voice.split(','): with a ':' it is unpacked into voice
\* and weight (a ValueError unless there are exactly two parts and the
\* weight is a number); without, the weight is the default
ParsePair(pair) ==
    IF \E i \in 1..Len(pair) : pair[i] = COLON
    THEN LET parts == SplitOn(Strip(pair), COLON)
         IN  IF Len(parts) # 2 \/ ~IsDigitString(Strip(parts[2]))
             THEN [ok |-> FALSE, v |-> <<>>, w |-> 0]
             ELSE [ok |-> TRUE, v |-> Strip(parts[1]), w |-> DigitsValue(Strip(parts[2]))]
    ELSE [ok |-> TRUE, v |-> Strip(pair), w |-> DefaultWeight]

\* Two voices only: any larger number passes as well
VoiceCountAtLeastTwo(voices) == Len(voices) >= 2

\* if len(voices) != 2: raise ValueError
VoiceCountOk(voices) == Len(voices) = 2

\* The weights are left as given
NormWeightUnscaled(w, total) == [num |-> w, den |-> 1]

\* if total != 100: w * (100/total), as an exact fraction num/den
NormWeight(w, total) ==
    IF total = 100 THEN [num |-> w, den |-> 1] ELSE [num |-> w * 100, den |-> total]

\* total = sum(weights)
RECURSIVE SumWeights(_)
SumWeights(weights) ==
    IF weights = <<>> THEN 0 ELSE Head(weights) + SumWeights(Tail(weights))

ExitResult == [kind |-> "exit", voices |-> <<>>, weights |-> <<>>]

\* validate_voice(voice, kokoro): every exception raised on the way is
\* caught by the function's own handler, which ends the process
ValidateVoice(sel) ==
    IF \E i \in 1..Len(sel) : sel[i] = COMMA
    THEN LET parsed == [k \in 1..Len(SplitOn(sel, COMMA)) |-> ParsePair(SplitOn(sel, COMMA)[k])]
             voices == [k \in 1..Len(parsed) |-> parsed[k].v]
             total == SumWeights([k \in 1..Len(parsed) |-> parsed[k].w])
         IN  IF \E k \in 1..Len(parsed) : ~parsed[k].ok THEN ExitResult
             ELSE IF ~VoiceCountOk(voices) THEN ExitResult
             ELSE IF \E k \in 1..Len(voices) : voices[k] \notin supported_voices
             THEN ExitResult
             ELSE IF total = 0 THEN ExitResult
             ELSE [kind |-> "blend", voices |-> voices,
                   weights |-> [k \in 1..Len(parsed) |-> NormWeight(parsed[k].w, total)]]
    ELSE IF sel \notin supported_voices THEN ExitResult
    ELSE [kind |-> "voice", voices |-> <<sel>>, weights |-> <<>>]

\* return blend
ValidateVoiceBlend ==
    /\ vv_pc = "start"
    /\ ValidateVoice(voice).kind = "blend"
    /\ vv_result' = ValidateVoice(voice)
    /\ vv_pc' = "done"
    /\ UNCHANGED <<voice, sel_pairs, vv_exit_code>>
    /\ UNCHANGED notVoice

\* return voice
ValidateVoiceSingle ==
    /\ vv_pc = "start"
    /\ ValidateVoice(voice).kind = "voice"
    /\ vv_result' = ValidateVoice(voice)
    /\ vv_pc' = "done"
    /\ UNCHANGED <<voice, sel_pairs, vv_exit_code>>
    /\ UNCHANGED notVoice

\* except Exception: print the error; sys.exit(1)
ValidateVoiceExits ==
    /\ vv_pc = "start"
    /\ ValidateVoice(voice).kind = "exit"
    /\ vv_exit_code' = 1
    /\ vv_pc' = "exit"
    /\ UNCHANGED <<voice, sel_pairs, vv_result>>
    /\ UNCHANGED notVoice

-----------------------------------------------------------------------------
(* Specifications *)

ChunkAlphabet == {"a", SP, DOT, NL}

ChunkIdle ==
    /\ text = <<>>
    /\ chunk_size = 0
    /\ ck_pc = "idle"
    /\ sentences = <<>>
    /\ sent_no = 0
    /\ chunks = <<>>
    /\ chunk_src = <<>>
    /\ current_chunk = <<>>
    /\ current_src = {}
    /\ current_size = 0

RetryIdle ==
    /\ rt_pc = "idle"
    /\ backend_limit = 0
    /\ bad_texts = {}
    /\ orig_chunk = <<>>
    /\ stack = <<>>
    /\ calls = <<>>
    /\ result = [kind |-> "pending", samples |-> <<>>, sr |-> 0]

NoFiles == [ch \in Chapters |-> [i \in ChunkIds |-> "absent"]]
NoWriter == [ch \in Chapters |-> [i \in ChunkIds |-> 0]]

RunIdle ==
    /\ doc_format = "txt"
    /\ n_chunks = <<>>
    /\ split_output = FALSE
    /\ run = 0
    /\ pc = "idle"
    /\ chapter_num = 0
    /\ chunk_num = 0
    /\ processed_chunks = 0
    /\ stop_audio = FALSE
    /\ stop_spinner = FALSE
    /\ spinner_alive = FALSE
    /\ exit_code = -1
    /\ fs_dir = [ch \in Chapters |-> [exists |-> FALSE, info |-> FALSE]]
    /\ fs_chunk = NoFiles
    /\ writer = NoWriter
    /\ fs_at_start = NoFiles
    /\ writer_at_start = NoWriter
    /\ synthesized = {}
    /\ treated_done = {}
    /\ failed = {}
    /\ skipped = {}
    /\ mem_samples = {}
    /\ out_file = "absent"

MergeIdle ==
    /\ mg_pc = "idle"
    /\ mg_dirs = <<>>
    /\ mg_next = 0
    /\ used_titles = {}
    /\ mg_writes = <<>>
    /\ mg_run = 0

ExtractIdle ==
    /\ ex_pc = "idle"
    /\ ex_format = "epub"
    /\ epub_toc = <<>>
    /\ epub_docs = <<>>
    /\ pdf_toc = <<>>
    /\ pdf_pages = <<>>
    /\ md_text = <<>>
    /\ min_chapter_length = 0
    /\ ex_chapters = <<>>

VoiceIdle ==
    /\ vv_pc = "idle"
    /\ voice = <<>>
    /\ sel_pairs = <<>>
    /\ vv_result = ExitResult
    /\ vv_exit_code = -1

InitChunk ==
    /\ text \in StringsUpTo(ChunkAlphabet, MaxTextLen)
    /\ chunk_size \in 1..MaxChunkSize
    /\ ck_pc = "start"
    /\ sentences = <<>>
    /\ sent_no = 0
    /\ chunks = <<>>
    /\ chunk_src = <<>>
    /\ current_chunk = <<>>
    /\ current_src = {}
    /\ current_size = 0
    /\ RetryIdle
    /\ RunIdle
    /\ MergeIdle
    /\ ExtractIdle
    /\ VoiceIdle

NextChunk ==
    \/ ChunkStart
    \/ SkipEmptySentence
    \/ SplitLongSentence
    \/ AccumulateSentence
    \/ ChunkFinish

SpecChunk == InitChunk /\ [][NextChunk]_vars

RetryAlphabet == {"a", SP}

\* Texts on which the backend may fail with an error of its own
BadPool == {<<"a">>, <<"a", "a">>}

InitRetry ==
    /\ ChunkIdle
    /\ RunIdle
    /\ MergeIdle
    /\ ExtractIdle
    /\ VoiceIdle
    /\ rt_pc = "run"
    /\ backend_limit \in 1..MaxLimit
    /\ orig_chunk \in StringsUpTo(RetryAlphabet, MaxChunkLen) \ {<<>>}
    /\ bad_texts \in (SUBSET BadPool) \cup {{orig_chunk}}
    /\ stack = <<CallFrame(orig_chunk)>>
    /\ calls = <<>>
    /\ result = [kind |-> "pending", samples |-> <<>>, sr |-> 0]

NextRetry ==
    \/ CreateSucceeds
    \/ CreateTooLong
    \/ CreateFails
    \/ RecursePiece
    \/ RecursionErrorCaught
    \/ RecursionErrorRaised
    \/ FinishPieces

SpecRetry == InitRetry /\ [][NextRetry]_vars

\* The chapter lists an extraction can give: a text file is always one
\* chapter; an EPUB or a PDF gives any number of chapters, none included
ChapterLists(fmt) ==
    IF fmt = "txt"
    THEN [1..1 -> 0..MaxChunks]
    ELSE UNION {[1..k -> 0..MaxChunks] : k \in 0..MaxChapters}

\* The first invocation, on an output directory that does not exist yet
Init ==
    /\ ChunkIdle
    /\ RetryIdle
    /\ MergeIdle
    /\ ExtractIdle
    /\ VoiceIdle
    /\ doc_format \in {"epub", "pdf", "txt"}
    /\ n_chunks \in ChapterLists(doc_format)
    /\ split_output \in BOOLEAN
    /\ run = 1
    /\ pc = "start"
    /\ chapter_num = 0
    /\ chunk_num = 0
    /\ processed_chunks = 0
    /\ stop_audio = FALSE
    /\ stop_spinner = FALSE
    /\ spinner_alive = FALSE
    /\ exit_code = -1
    /\ fs_dir = [ch \in Chapters |-> [exists |-> FALSE, info |-> FALSE]]
    /\ fs_chunk = NoFiles
    /\ writer = NoWriter
    /\ fs_at_start = NoFiles
    /\ writer_at_start = NoWriter
    /\ synthesized = {}
    /\ treated_done = {}
    /\ failed = {}
    /\ skipped = {}
    /\ mem_samples = {}
    /\ out_file = "absent"

Next ==
    \/ ReadInput
    \/ SkipChapter
    \/ BeginChapter
    \/ SkipChunk
    \/ StartChunk
    \/ SynthOk
    \/ SynthFails
    \/ WriteDone
    \/ WriteFails
    \/ StopSpinner
    \/ JoinSpinner
    \/ EndChapter
    \/ Finish
    \/ SpinnerExit
    \/ HandleCtrlC
    \/ NextRun

Spec == Init /\ [][Next]_vars

\* Repeated invocations in split mode with a backend that eventually
\* succeeds: the failures and the cancellations happen in the invocations
\* before the last one modelled
InitResume ==
    /\ Init
    /\ split_output

\* The steps of the main thread that are no failure
MainStep ==
    \/ ReadInput
    \/ SkipChapter
    \/ BeginChapter
    \/ SkipChunk
    \/ StartChunk
    \/ SynthOk
    \/ WriteDone
    \/ StopSpinner
    \/ JoinSpinner
    \/ EndChapter
    \/ Finish

\* A failed driver call, a failed write, Ctrl+C
Fault ==
    \/ SynthFails
    \/ WriteFails
    \/ HandleCtrlC

NextResume ==
    \/ MainStep
    \/ SpinnerExit
    \/ NextRun
    \/ (run < MaxRuns /\ Fault)

\* The main thread and the spinner thread are scheduled, and the user
\* invokes the tool again after each exit
SpecResume ==
    /\ InitResume
    /\ [][NextResume]_vars
    /\ WF_vars(MainStep)
    /\ WF_vars(SpinnerExit)
    /\ WF_vars(NextRun)

\* One invocation with --stream: the chapters are streamed, no file is written
InitStream ==
    /\ Init
    /\ ~split_output

NextStream ==
    \/ ReadInput
    \/ StreamBegin
    \/ StreamStartChunk
    \/ StreamPlayed
    \/ StreamFails
    \/ StreamJoin
    \/ StreamEnd
    \/ Finish
    \/ SpinnerExit
    \/ HandleCtrlC

\* The main thread and the spinner thread are scheduled; nobody has to
\* press Ctrl+C
SpecStream ==
    /\ InitStream
    /\ [][NextStream]_vars
    /\ WF_vars(ReadInput \/ StreamBegin \/ StreamStartChunk \/ StreamPlayed
                  \/ StreamJoin \/ StreamEnd \/ Finish)
    /\ WF_vars(SpinnerExit)

\* The chapter directories as an earlier invocation with another chunk
\* size or other content may have left them: any set of chunk files, and
\* the directory with info.txt wherever a chunk file is
StaleFiles == [Chapters -> [ChunkIds -> {"absent", "full"}]]

StaleDir(files) ==
    [exists |-> \E i \in ChunkIds : files[i] # "absent",
     info |-> \E i \in ChunkIds : files[i] # "absent"]

\* An invocation in split mode on such an output directory
InitStale ==
    /\ ChunkIdle
    /\ RetryIdle
    /\ MergeIdle
    /\ ExtractIdle
    /\ VoiceIdle
    /\ doc_format \in {"epub", "pdf", "txt"}
    /\ n_chunks \in ChapterLists(doc_format)
    /\ split_output = TRUE
    /\ run = 1
    /\ pc = "start"
    /\ chapter_num = 0
    /\ chunk_num = 0
    /\ processed_chunks = 0
    /\ stop_audio = FALSE
    /\ stop_spinner = FALSE
    /\ spinner_alive = FALSE
    /\ exit_code = -1
    /\ fs_chunk \in StaleFiles
    /\ fs_dir = [ch \in Chapters |-> StaleDir(fs_chunk[ch])]
    /\ writer = NoWriter
    /\ fs_at_start = fs_chunk
    /\ writer_at_start = NoWriter
    /\ synthesized = {}
    /\ treated_done = {}
    /\ failed = {}
    /\ skipped = {}
    /\ mem_samples = {}
    /\ out_file = "absent"

SpecStale == InitStale /\ [][Next]_vars

\* A chunk file as a run leaves it: absent (never written, or its chunk
\* failed), empty (the write was cut short), unreadable, or complete with
\* the sample rate the backend gave
MergeRates == {1, 2}
ChunkFileStates ==
    {[state |-> st, sr |-> 0] : st \in {"absent", "empty", "corrupt"}}
        \cup {[state |-> "full", sr |-> r] : r \in MergeRates}

MergeTitles == {<<>>, <<"A">>, <<"A", "/">>, <<"c", "2">>}

\* Any chapter directory: chunk files of any state, info.txt with a title
AnyDirs == [files : [1..MaxMergeIdx -> ChunkFileStates], info : {TRUE}, title : MergeTitles]

\* The directories after the first: one complete chunk; no info.txt, or
\* info.txt with a title
PlainFiles ==
    [i \in 1..MaxMergeIdx |->
        IF i = 1 THEN [state |-> "full", sr |-> 1] ELSE [state |-> "absent", sr |-> 0]]
PlainDirs ==
    {[files |-> PlainFiles, info |-> FALSE, title |-> <<>>]}
        \cup {[files |-> PlainFiles, info |-> TRUE, title |-> t] : t \in {<<"A">>, <<"c", "2">>}}

InitMerge ==
    /\ ChunkIdle
    /\ RetryIdle
    /\ RunIdle
    /\ ExtractIdle
    /\ VoiceIdle
    /\ mg_pc = "start"
    /\ mg_dirs \in UNION {{<<>>}} \cup
                   UNION {{<<d>> \o rest : d \in AnyDirs, rest \in [1..k -> PlainDirs]}
                            : k \in 0..(MaxMergeDirs - 1)}
    /\ mg_next = 0
    /\ used_titles = {}
    /\ mg_writes = <<>>
    /\ mg_run = 1

NextMerge ==
    \/ MergeStart
    \/ MergeNoChunks
    \/ MergeChapter
    \/ MergeDone
    \/ MergeAgain

SpecMerge == InitMerge /\ [][NextMerge]_vars

\* Chunk indices around the first one that has more digits than the
\* padding width: chunk_001, chunk_999, chunk_1000
LongIdx == {1, 10^PadWidth - 1, 10^PadWidth}

\* One chapter directory of a long chapter: chunk files of any state at
\* these indices, info.txt with a title
LongDirs == [files : [LongIdx -> ChunkFileStates], info : {TRUE}, title : {<<"A">>}]

InitMergeLong ==
    /\ ChunkIdle
    /\ RetryIdle
    /\ RunIdle
    /\ ExtractIdle
    /\ VoiceIdle
    /\ mg_pc = "start"
    /\ mg_dirs \in {<<d>> : d \in LongDirs}
    /\ mg_next = 0
    /\ used_titles = {}
    /\ mg_writes = <<>>
    /\ mg_run = 1

SpecMergeLong == InitMergeLong /\ [][NextMerge]_vars

\* Sequences over S of length at most n
SeqsUpTo(S, n) == UNION {[1..k -> S] : k \in 0..n}

TitleCover == <<"C", "o", "v", "e", "r">>
TitleOne == <<"O", "n", "e">>

\* The links of a table of contents: a front-matter link, a link whose
\* text comes out empty, a link with text
EpubLinks ==
    { [kind |-> "link", title |-> TitleCover, content |-> <<"x">>],
      [kind |-> "link", title |-> TitleOne, content |-> <<>>],
      [kind |-> "link", title |-> TitleOne, content |-> <<"x">>] }

EpubSections == {[kind |-> "section", title |-> TitleOne, items |-> its] :
                    its \in SeqsUpTo(EpubLinks, MaxSectionItems)}

EpubTocs == SeqsUpTo(EpubLinks \cup EpubSections, MaxTocItems)

\* The documents of the fallback: with chapter headings, or without
EpubDocs ==
    {[divs |-> ds, text |-> <<"x">>, title |-> TitleOne] :
        ds \in SeqsUpTo({[title |-> TitleOne, content |-> c] : c \in {<<SP>>, <<"x">>}}, 2) \ {<<>>}}
    \cup {[divs |-> <<>>, text |-> t, title |-> ti] :
            t \in {<<>>, <<"x">>}, ti \in {TitleCover, TitleOne}}

\* The outline entries of a PDF: "z" stands for the zero-width space
PdfEntries == [level : {1, 2}, title : {<<SP>>, <<"T", "z">>}, page : 1..MaxPages]

PageTexts == {<<NL>>, <<"x", "x">>}

\* The markdown tried after an outline that gave no chapters
MdSamples == {<<>>, <<"#", "x", NL, "x">>}

MdAlphabet == {"#", "x", NL, "-"}

InitExtract ==
    /\ ChunkIdle
    /\ RetryIdle
    /\ RunIdle
    /\ MergeIdle
    /\ VoiceIdle
    /\ ex_pc = "start"
    /\ ex_format \in {"epub", "pdf"}
    /\ ex_chapters = <<>>
    /\ IF ex_format = "epub"
       THEN /\ epub_toc \in EpubTocs
            \* the documents are read only when the table of contents gives nothing
            /\ epub_docs \in IF TocChapters(epub_toc) = <<>>
                              THEN SeqsUpTo(EpubDocs, MaxEpubDocs) ELSE {<<>>}
            /\ pdf_toc = <<>>
            /\ pdf_pages = <<>>
            /\ md_text = <<>>
            /\ min_chapter_length = 0
       ELSE /\ epub_toc = <<>>
            /\ epub_docs = <<>>
            /\ pdf_toc \in SeqsUpTo(PdfEntries, MaxPdfEntries)
            /\ min_chapter_length \in {1, 2}
            \* the pages are read only through the outline, the markdown
            \* only when the outline gives nothing
            /\ IF pdf_toc = <<>>
               THEN /\ pdf_pages = [p \in 1..MaxPages |-> <<NL>>]
                    /\ md_text \in StringsUpTo(MdAlphabet, MaxMdLen)
               ELSE /\ pdf_pages \in [1..MaxPages -> PageTexts]
                    /\ md_text \in IF PdfTocChapters(pdf_toc, pdf_pages,
                                                      min_chapter_length) = <<>>
                                    THEN MdSamples ELSE {<<>>}

NextExtract ==
    \/ ExtractEpubToc
    \/ ExtractEpubFallback
    \/ ExtractPdfToc
    \/ ExtractPdfMarkdown

SpecExtract == InitExtract /\ [][NextExtract]_vars

\* The pairs a selector is written from: a supported or an unknown voice,
\* with a weight or without (-1)
VoiceNames == {<<"a">>, <<"b">>, <<"x">>}
GivenWeights == {-1, 0, 1, 2, 40, 60}
PairSpecs == [v : VoiceNames, w : GivenWeights]

\* "voice" or "voice:weight"
FormatPair(ps) == IF ps.w = -1 THEN ps.v ELSE ps.v \o <<COLON>> \o Digits(ps.w)

\* The pairs joined by "," or by ", "
RECURSIVE FormatSelector(_, _)
FormatSelector(pairs, spaced) ==
    IF Len(pairs) = 1 THEN FormatPair(pairs[1])
    ELSE FormatPair(pairs[1]) \o <<COMMA>> \o (IF spaced THEN <<SP>> ELSE <<>>)
            \o FormatSelector(Tail(pairs), spaced)

InitVoice ==
    /\ ChunkIdle
    /\ RetryIdle
    /\ RunIdle
    /\ MergeIdle
    /\ ExtractIdle
    /\ vv_pc = "start"
    /\ sel_pairs \in SeqsUpTo(PairSpecs, MaxVoices) \ {<<>>}
    /\ \E spaced \in BOOLEAN : voice = FormatSelector(sel_pairs, spaced)
    /\ vv_result = ExitResult
    /\ vv_exit_code = -1

NextVoice ==
    \/ ValidateVoiceBlend
    \/ ValidateVoiceSingle
    \/ ValidateVoiceExits

SpecVoice == InitVoice /\ [][NextVoice]_vars

-----------------------------------------------------------------------------
(* Claims about chunk_text *)

\* The words of a string, with periods read as separators
WordsOf(s) == SplitWords([i \in 1..Len(s) |-> IF s[i] = DOT THEN SP ELSE s[i]])

\* C3: every chunk returned by chunk_text has length <= the target size,
\* except a chunk that is one single whitespace-free word.
C3_ChunkSizeBound ==
    \A i \in 1..Len(chunks) :
        Len(chunks[i]) <= chunk_size \/ ~HasSpace(chunks[i])

\* C4: chunks are emitted in source order: no chunk holding text of a later
\* sentence comes before a chunk holding text of an earlier sentence.
C4_SourceOrder ==
    \A i, j \in 1..Len(chunks) :
        i < j => \A a \in chunk_src[i], b \in chunk_src[j] : a <= b

\* C5: the words of all returned chunks, in chunk order and without the
\* periods, are exactly the word sequence of the input text.
C5_WordSequencePreserved ==
    ck_pc = "done" =>
        Flatten([i \in 1..Len(chunks) |-> WordsOf(chunks[i])]) = WordsOf(text)

-----------------------------------------------------------------------------
(* Claims about process_chunk_sequential *)

\* Number of backend calls made with the text t
CountCalls(t) == Cardinality({k \in 1..Len(calls) : calls[k] = t})

IsSingleWord(s) == s # <<>> /\ ~HasSpace(s)

\* C6: with a backend that rejects every text longer than N characters and
\* succeeds otherwise, the call on an input of length 10N (without outer
\* whitespace) submits the unmodified input at most once and ends by
\* returning non-empty samples.
C6_RetryConverges ==
    (rt_pc # "idle" /\ bad_texts = {}
                    /\ Len(orig_chunk) = 10 * backend_limit
                    /\ Strip(orig_chunk) = orig_chunk) =>
        /\ CountCalls(orig_chunk) <= 1
        /\ rt_pc = "done" => (result.kind = "ok" /\ result.samples # <<>>)

\* C7: a chunk that is one single word and that the backend rejects as too
\* long ends as the terminal failure (None, None), and the recursion stops
\* by itself: it never runs into the interpreter's recursion limit.
C7_SingleWordTerminalFailure ==
    (IsSingleWord(orig_chunk) /\ Backend(orig_chunk) = "toolong") =>
        /\ Len(stack) < RecursionLimit
        /\ rt_pc = "done" => result = NoneResult

\* C15: when the backend fails on the chunk with an error other than the
\* too-long error, the call makes exactly that one backend call, does not
\* split the chunk and returns (None, None).
C15_OtherErrorIsTerminal ==
    (rt_pc # "idle" /\ Backend(orig_chunk) = "error") =>
        /\ \A k \in 1..Len(stack) : stack[k].phase = "call"
        /\ Len(stack) <= 1
        /\ rt_pc = "run" => calls = <<>>
        /\ rt_pc = "done" => (result = NoneResult /\ calls = <<orig_chunk>>)

C15_Witness ==
    /\ rt_pc = "done"
    /\ Backend(orig_chunk) = "error"
    /\ HasSpace(Strip(orig_chunk))
    /\ calls = <<orig_chunk>>

\* The samples of the pieces that succeeded, in piece order
RECURSIVE TakenSamples(_)
TakenSamples(got) ==
    IF got = <<>> THEN <<>>
    ELSE (IF Head(got).kind = "ok" THEN Head(got).samples ELSE <<>>)
            \o TakenSamples(Tail(got))

OkPieces(got) == {k \in 1..Len(got) : got[k].kind = "ok"}

\* What the claim says the call returns after its pieces returned got
ExpectedOf(got) ==
    IF OkPieces(got) = {} THEN NoneResult
    ELSE OkResult(TakenSamples(got), got[SetMax(OkPieces(got))].sr)

SixtyPercent(L) == (6 * L) \div 10

\* C19: a chunk of length L that failed as too long is re-split into pieces
\* whose words, in order, are exactly the words of the chunk, and every
\* piece is at most floor(0.6 * L) long unless it is one single word.
C19_ResplitAtSixtyPercent ==
    \A k \in 1..Len(stack) :
        stack[k].phase = "pieces" =>
            /\ Flatten([j \in 1..Len(stack[k].pieces) |-> SplitWords(stack[k].pieces[j])])
                  = SplitWords(stack[k].chunk)
            /\ \A j \in 1..Len(stack[k].pieces) :
                  \/ Len(stack[k].pieces[j]) <= SixtyPercent(Len(stack[k].chunk))
                  \/ IsSingleWord(stack[k].pieces[j])

\* A re-split with a piece of several words as long as the packing allows,
\* one character less than the target
C19_Witness ==
    \E k \in 1..Len(stack) :
        /\ stack[k].phase = "pieces"
        /\ Len(stack[k].pieces) >= 2
        /\ \E j \in 1..Len(stack[k].pieces) :
              /\ HasSpace(stack[k].pieces[j])
              /\ Len(stack[k].pieces[j]) + 1 = SixtyPercent(Len(stack[k].chunk))

\* Every piece of a re-split is strictly shorter than the chunk it was
\* cut from, unless that chunk is one single word without whitespace
PiecesShorter ==
    \A k \in 1..Len(stack) :
        (stack[k].phase = "pieces" /\ ~IsSingleWord(stack[k].chunk)) =>
            \A j \in 1..Len(stack[k].pieces) :
                Len(stack[k].pieces[j]) < Len(stack[k].chunk)

\* C29: in the too-long retry every piece passed to a recursive call is
\* strictly shorter than its parent chunk unless the parent is one single
\* word; so for a chunk of two or more words the text length strictly
\* decreases along the active calls and their number is at most the
\* chunk's length.
C29_RecursionShrinks ==
    /\ PiecesShorter
    /\ Len(SplitWords(orig_chunk)) >= 2 =>
          /\ \A k \in 1..(Len(stack) - 1) :
                Len(stack[k + 1].chunk) < Len(stack[k].chunk)
          /\ Len(stack) <= Len(orig_chunk)

-----------------------------------------------------------------------------
(* Claims about convert_text_to_audio *)

\* C1: in split-output mode an invocation never calls the driver for a
\* chunk whose file existed when the invocation started, and that file is
\* the same file, with the same content, at every later point of the run.
C1_ResumeSkipsDone ==
    split_output =>
        \A ch \in Chapters, i \in ChunkIds :
            fs_at_start[ch][i] # "absent" =>
                /\ <<ch, i>> \notin synthesized
                /\ fs_chunk[ch][i] = fs_at_start[ch][i]
                /\ writer[ch][i] = writer_at_start[ch][i]

\* A later invocation ran to its end, skipped a chunk written by an earlier
\* invocation and synthesized another chunk itself
C1_Witness ==
    /\ split_output
    /\ run >= 2
    /\ pc = "exit"
    /\ ~stop_audio
    /\ synthesized # {}
    /\ \E sk \in treated_done :
          /\ fs_at_start[sk[1]][sk[2]] = "full"
          /\ writer[sk[1]][sk[2]] < run

\* C2: a chunk is treated as done only if its file exists and is
\* non-empty: every chunk an invocation skips as done has a complete file.
C2_DoneIffNonEmpty ==
    \A sk \in treated_done : fs_chunk[sk[1]][sk[2]] = "full"

\* C10: an invocation whose extraction gave zero chapters (and that was
\* not interrupted) ends with exit code 1 and without a driver call.
C10_ZeroChaptersExitOne ==
    (pc = "exit" /\ ~stop_audio /\ Len(n_chunks) = 0) =>
        (exit_code = 1 /\ synthesized = {})

\* The process ended by itself, without Ctrl+C
RanToEnd == pc = "exit" /\ ~stop_audio /\ exit_code = 0

\* <<ch, i>> comes before <<ch2, i2>> in the order of the two loops
Before(a, b) == a[1] < b[1] \/ (a[1] = b[1] /\ a[2] < b[2])

\* C11: a failed synthesis of a chunk aborts neither the chapter nor the
\* document: in an invocation that runs to its end every chunk was either
\* passed to the driver or skipped because its file exists, and nothing is
\* written (file or samples in memory) for a chunk whose driver call failed.
C11_FailureDoesNotAbort ==
    /\ RanToEnd =>
          \A ch \in 1..Len(n_chunks) : \A i \in 1..n_chunks[ch] :
              <<ch, i>> \in synthesized \cup treated_done
    /\ \A f \in failed :
          /\ split_output => fs_chunk[f[1]][f[2]] = "absent"
          /\ f \notin mem_samples

C11_Witness ==
    /\ RanToEnd
    /\ \E f \in failed : \E s \in synthesized \ failed :
          /\ Before(f, s)
          /\ f[1] = s[1]
          /\ split_output /\ fs_chunk[s[1]][s[2]] = "full" /\ writer[s[1]][s[2]] = run
    /\ \E f \in failed : \E s \in synthesized \ failed : f[1] < s[1]

\* C12: once Ctrl+C has set stop_audio, no further driver call is started,
\* in split mode and in memory mode, and no chunk file changes: the files
\* that existed when the signal arrived stay as they were.
C12_NoWorkAfterCancel ==
    [][stop_audio =>
          /\ synthesized' \subseteq synthesized
          /\ mem_samples' \subseteq mem_samples
          /\ fs_chunk' = fs_chunk
          /\ writer' = writer
          /\ fs_dir' = fs_dir]_vars

C12_Witness ==
    /\ stop_audio
    /\ pc = "exit"
    /\ split_output
    /\ \E ch \in 1..Len(n_chunks) : \E i, j \in 1..n_chunks[ch] :
          /\ i < j
          /\ fs_chunk[ch][i] = "full" /\ writer[ch][i] = run
          /\ <<ch, j>> \notin synthesized /\ fs_chunk[ch][j] = "absent"

\* The directory and info.txt of the chapter exist and there are as many
\* chunk files as the chapter has chunks
CompletedNow(ch) ==
    /\ fs_dir[ch].exists
    /\ fs_dir[ch].info
    /\ Cardinality({i \in ChunkIds : fs_chunk[ch][i] # "absent"}) = n_chunks[ch]

\* C20: in split mode a chapter found completed when the chapter loop
\* reaches it is skipped: the loop goes straight on to the next chapter, and
\* the invocation makes no driver call and writes no file for it.
C20_CompletedChapterSkipped ==
    /\ [](\A ch \in skipped :
            /\ chapter_num > ch
            /\ \A i \in ChunkIds : <<ch, i>> \notin synthesized
            /\ fs_chunk[ch] = fs_at_start[ch]
            /\ writer[ch] = writer_at_start[ch])
    /\ [][(/\ split_output
           /\ pc = "chapter"
           /\ chapter_num <= Len(n_chunks)
           /\ CompletedNow(chapter_num)
           /\ ~stop_audio')
              => /\ pc' = "chapter"
                 /\ chapter_num' = chapter_num + 1
                 /\ skipped' = skipped \cup {chapter_num}
                 /\ fs_chunk' = fs_chunk
                 /\ fs_dir' = fs_dir
                 /\ synthesized' = synthesized]_vars

\* A completed chapter was skipped and a chunk of a later chapter was
\* synthesized and written in the same invocation
C20_Witness ==
    /\ split_output
    /\ \E ch \in skipped :
          /\ n_chunks[ch] > 0
          /\ \E s \in synthesized :
                /\ s[1] > ch
                /\ fs_chunk[s[1]][s[2]] = "full"
                /\ writer[s[1]][s[2]] = run

-----------------------------------------------------------------------------
(* Claims about the resume over several invocations *)

\* The chunk file was absent when the current invocation started
MissingAtStart(ch, i) == fs_at_start[ch][i] = "absent"

\* Every chapter of the document passes the chapter test of the resume
AllCompleted == \A ch \in 1..Len(n_chunks) : ChapterCompleted(ch)

\* C21: an invocation that is not cancelled passes to the driver every
\* chunk whose file was missing at its start; a chapter that passes the
\* completed test passes it ever after; and when the failures and the
\* cancellations stop, repeated invocations reach a state where every
\* chapter is completed, and stay there.
C21_ResumeCompletes ==
    /\ [](split_output /\ RanToEnd =>
            \A ch \in 1..Len(n_chunks) : \A i \in 1..n_chunks[ch] :
                MissingAtStart(ch, i) => <<ch, i>> \in synthesized)
    /\ [][\A ch \in 1..Len(n_chunks) :
            split_output /\ ChapterCompleted(ch) => ChapterCompleted(ch)']_vars
    /\ <>[](split_output => AllCompleted)

\* A later invocation ran to its end and left every chapter completed; it
\* synthesized and wrote a chunk that was missing at its start, in a
\* chapter that an earlier invocation had left with a part of its files
C21_Witness ==
    /\ split_output
    /\ run >= 2
    /\ RanToEnd
    /\ AllCompleted
    /\ \E ch \in 1..Len(n_chunks) : \E i, j \in 1..n_chunks[ch] :
        /\ MissingAtStart(ch, i)
        /\ <<ch, i>> \in synthesized
        /\ writer[ch][i] = run
        /\ writer_at_start[ch][j] \in 1..(run - 1)

\* The main thread has ended: by its return, by sys.exit or by an exception
MainThreadEnded == pc \in {"exit", "crashed"}

\* C27: the spinner does not hold up the run: when the main thread has
\* ended, also after a failed synthesis or streaming call, the spinner
\* thread has ended or has been told to stop.
C27_SpinnerNeverLeftRunning ==
    MainThreadEnded => (~spinner_alive \/ stop_spinner)

\* C28: a chapter skipped as already completed has a chunk file for every
\* index 1..N of the freshly computed chunk list, whatever files its
\* directory held before the invocation.
C28_SkippedChapterHasAllChunks ==
    \A ch \in skipped :
        \A i \in 1..n_chunks[ch] : fs_chunk[ch][i] # "absent"

\* C30: in split mode, at every chunk boundary of the chapter in work,
\* processed_chunks equals the number of chunk files in the chapter
\* directory and does not exceed the number of chunks.
C30_CounterMatchesFiles ==
    (split_output /\ pc = "chunk") =>
        /\ processed_chunks = ExistingChunks(chapter_num)
        /\ processed_chunks <= n_chunks[chapter_num]

-----------------------------------------------------------------------------
(* Claims about merge_chunks_to_chapters *)

\* The chunk files of the directory do not cover a range 1..N
HasGap(dir) ==
    PresentChunks(dir) # {} /\ PresentChunks(dir) # 1..SetMax(PresentChunks(dir))

\* C8: a chapter directory whose chunk files do not cover a contiguous
\* range 1..N gets no merged file.
C8_GapFailsMerge ==
    \A k \in 1..Len(mg_dirs) :
        HasGap(mg_dirs[k]) => ~\E w \in 1..Len(mg_writes) : mg_writes[w].dir = k

\* C13: the output directory tree is only appended to: every write creates
\* a file that was absent.  For the merged chapter files: a file written by
\* one merge invocation is not written again by a later invocation.
C13_MergedFileWrittenOnce ==
    \A v, w \in 1..Len(mg_writes) :
        mg_writes[v].run < mg_writes[w].run => mg_writes[v].name # mg_writes[w].name

\* C14: within one merge invocation no two chapter directories are merged
\* into the same output file.
C14_NoSharedMergedFile ==
    \A v, w \in 1..Len(mg_writes) :
        (mg_writes[v].run = mg_writes[w].run /\ mg_writes[v].dir # mg_writes[w].dir)
            => mg_writes[v].name # mg_writes[w].name

\* C22: the chunk files of a chapter are concatenated in strictly
\* ascending order of their numeric chunk index, also when an index has
\* more digits than the padding width.
C22_AscendingNumericOrder ==
    \A w \in 1..Len(mg_writes) :
        \A a, b \in 1..Len(mg_writes[w].samples) :
            a < b => mg_writes[w].samples[a] < mg_writes[w].samples[b]

\* The chunk files of a directory that can be read and hold data, in the
\* order they are read
ReadableFiles(dir) ==
    SelectSeq(ChunkFiles(dir), LAMBDA i : dir.files[i].state = "full")

\* The rate of the first of them
ReferenceRate(dir) ==
    IF ReadableFiles(dir) = <<>> THEN 0 ELSE dir.files[Head(ReadableFiles(dir))].sr

\* Those at the reference rate, in order
AtReference(dir) ==
    SelectSeq(ReadableFiles(dir), LAMBDA i : dir.files[i].sr = ReferenceRate(dir))

\* C23: a chunk file whose sample rate differs from the chapter's reference
\* rate is skipped and the merge goes on: the merged file holds the samples
\* of exactly the files at the reference rate, in order, and is written at
\* that rate; a directory with a readable file gets its merged file.
C23_RateMismatchSkipped ==
    /\ \A w \in 1..Len(mg_writes) :
         LET dir == mg_dirs[mg_writes[w].dir]
         IN  /\ mg_writes[w].samples = AtReference(dir)
             /\ mg_writes[w].sr = ReferenceRate(dir)
    /\ mg_pc \in {"loop", "done"} =>
         \A k \in 1..(mg_next - 1) :
             ReadableFiles(mg_dirs[k]) # <<>> =>
                 \E w \in 1..Len(mg_writes) :
                     mg_writes[w].dir = k /\ mg_writes[w].run = mg_run

\* A merged file was written from a directory where a file at another rate
\* lies between two files at the reference rate
C23_Witness ==
    \E w \in 1..Len(mg_writes) :
        LET dir == mg_dirs[mg_writes[w].dir]
        IN  /\ Len(ReadableFiles(dir)) = 3
            /\ dir.files[ReadableFiles(dir)[2]].sr # ReferenceRate(dir)
            /\ Len(mg_writes[w].samples) = 2
            /\ mg_writes[w].sr = ReferenceRate(dir)

-----------------------------------------------------------------------------
(* Claims about validate_voice *)

\* The selector names two supported voices
TwoSupported ==
    /\ Len(sel_pairs) = 2
    /\ \A k \in 1..2 : sel_pairs[k].v \in supported_voices

\* C16: for a two-voice selector the blend weights sum to 100 and keep the
\* ratio of the weights given, for every pair of positive weights; without
\* any weight each voice gets 50.
C16_BlendWeights ==
    (vv_pc # "start" /\ TwoSupported) =>
        LET g1 == sel_pairs[1].w
            g2 == sel_pairs[2].w
            w1 == vv_result.weights[1]
            w2 == vv_result.weights[2]
        IN  /\ (g1 > 0 /\ g2 > 0) =>
                  /\ vv_pc = "done" /\ vv_result.kind = "blend"
                  /\ w1.num * w2.den + w2.num * w1.den = 100 * w1.den * w2.den
                  /\ w1.num * w2.den * g2 = w2.num * w1.den * g1
            /\ (g1 = -1 /\ g2 = -1) =>
                  /\ vv_pc = "done" /\ vv_result.kind = "blend"
                  /\ w1.num = 50 * w1.den
                  /\ w2.num = 50 * w2.den

\* A blend of weights that do not sum to 100
C16_Witness ==
    /\ vv_pc = "done"
    /\ TwoSupported
    /\ sel_pairs[1].w = 1 /\ sel_pairs[2].w = 2
    /\ \E i \in 1..Len(voice) : voice[i] = SP
    /\ vv_result.weights[1].den = 3

\* C17: a selector of three or more comma-separated voices ends the process
\* with exit code 1 inside validate_voice: the function does not return,
\* so nothing of the conversion is reached.
C17_ThreeVoicesExit ==
    (vv_pc # "start" /\ Len(sel_pairs) >= 3) =>
        (vv_pc = "exit" /\ vv_exit_code = 1)

C17_Witness ==
    /\ vv_pc = "exit"
    /\ vv_exit_code = 1
    /\ Len(sel_pairs) = 3
    /\ \A k \in 1..3 : sel_pairs[k].v \in supported_voices /\ sel_pairs[k].w > 0

-----------------------------------------------------------------------------
(* Claims about chapter extraction *)

\* C9: the chapter list returned for an EPUB or a PDF has strictly
\* increasing order values that start at 1.
C9_OrderStrictlyIncreasingFromOne ==
    ex_pc = "done" =>
        /\ \A i \in 1..(Len(ex_chapters) - 1) :
              ex_chapters[i].order < ex_chapters[i + 1].order
        /\ ex_chapters # <<>> => ex_chapters[1].order = 1


\* The lines of the converted markdown, as the converter returned it
MdLines(md) == SplitOn(md, NL)

\* A line beginning with a heading marker
IsHeading(line) == line # <<>> /\ Head(line) = "#"

\* The positions of the heading lines
Headings(md) == {i \in 1..Len(MdLines(md)) : IsHeading(MdLines(md)[i])}

\* The non-heading lines after the heading at position i, up to the next
\* heading or the end
TextAfter(md, i) ==
    LET later == {j \in Headings(md) : j > i}
        last == IF later = {} THEN Len(MdLines(md)) ELSE SetMin(later) - 1
    IN  Flatten([k \in 1..(last - i) |-> MdLines(md)[i + k] \o <<NL>>])

\* The outline gave no chapter: get_chapters went on to the markdown
FallbackTaken ==
    /\ ex_pc = "done"
    /\ ex_format = "pdf"
    /\ PdfTocChapters(pdf_toc, pdf_pages, min_chapter_length) = <<>>

\* C24: without a usable outline, a converted document with k heading
\* lines, each followed by more than the minimum length of text, gives k
\* chapters.
C24_ChapterPerHeading ==
    (FallbackTaken /\ \A i \in Headings(md_text) :
                          Len(Strip(TextAfter(md_text, i))) > min_chapter_length)
        => Len(ex_chapters) = Cardinality(Headings(md_text))

\* The pages read for the marker at position i: range(start_page - 1,
\* end_page), counted from 1
MarkerPages(markers, i, page_count) ==
    {p \in 1..page_count : markers[i].page <= p /\ p <= EndPage(markers, i, page_count)}

\* The chapters come from the outline
FromOutline ==
    /\ ex_pc = "done"
    /\ ex_format = "pdf"
    /\ PdfTocChapters(pdf_toc, pdf_pages, min_chapter_length) # <<>>

\* C25: the page ranges of the chapters taken from the outline are pairwise
\* disjoint: no page is extracted into two chapters.
C25_PageRangesDisjoint ==
    FromOutline =>
        \A a, b \in 1..Len(ex_chapters) :
            a # b =>
                MarkerPages(ChapterMarkers(pdf_toc), ex_chapters[a].order, Len(pdf_pages))
                  \cap MarkerPages(ChapterMarkers(pdf_toc), ex_chapters[b].order,
                                   Len(pdf_pages)) = {}

\* The text extracted for the marker at position i
MarkerText(markers, i) ==
    ExtractChapterText(pdf_pages, markers[i].page - 1, EndPage(markers, i, Len(pdf_pages)))

\* C26: a would-be chapter of the outline is discarded if and only if the
\* length of its text, stripped, is below min_chapter_length; a text of
\* exactly the minimum length is kept.
C26_KeptIffAtLeastMinimum ==
    FromOutline =>
        \A i \in 1..Len(ChapterMarkers(pdf_toc)) :
            (Len(Strip(MarkerText(ChapterMarkers(pdf_toc), i))) >= min_chapter_length)
                <=> (\E a \in 1..Len(ex_chapters) : ex_chapters[a].order = i)

=============================================================================
